---- MODULE Spec2Model ----
(***************************************************************************)
(* Statistics-extraction core of QubitDevice (pennylane/_qubit_device.py). *)
(*                                                                         *)
(* Probabilities are floating point numbers in the source.  Here a         *)
(* probability vector is a vector of natural numbers, the numerators of    *)
(* the probabilities over one common denominator: every operation that is  *)
(* modelled on probabilities is a sum, a product with an integer           *)
(* eigenvalue or a gather, so it acts on the numerators alone.             *)
(*                                                                         *)
(* Python indices are 0-based and TLA+ sequences 1-based: wire indices,    *)
(* basis indices and permutations keep their 0-based values and 1 is added *)
(* where a sequence is indexed.                                            *)
(***************************************************************************)
EXTENDS Integers, Sequences, FiniteSets, TLC

VARIABLES
    wires,           \* self.wires: the device's wire labels in device order
    shots,           \* self.shots: None (analytic) or the number of shots
    returns_state,   \* capabilities()["returns_state"]
    prob,            \* the probabilities of the state the device holds
    samples,         \* self._samples: None or one row of bits per shot
    num_executions,  \* self._num_executions
    circuit,         \* the observables of the circuit the device is used for
    shot_vector,     \* self._shot_vector: None or a list of (shots, copies)
    log,             \* what the last call did to the device, in order
    adj,             \* the frame of adjoint_jacobian: its tape and locals
    call,            \* the last call made on the device and its arguments
    ret              \* what that call returned or raised

vars == <<wires, shots, returns_state, prob, samples, num_executions, circuit,
         shot_vector, log, adj, call, ret>>

(***************************************************************************)
(* Bounds.                                                                 *)
(***************************************************************************)
\* largest number of device wires
MaxWires == 3
\* largest number of wires of a device that executes circuits
MaxDevWires == 2
\* largest number of configured shots
MaxShots == 2
\* largest number of observables in one request
MaxObs == 2
\* largest number of bits of the basis-state codec
MaxBits == 4
\* cap of the execution counter
MaxExecutions == 2

\* shots in a sample buffer the sampling engine is applied to
MaxRows == 4
\* largest total number of shots of a shot vector
MaxShotTotal == 3
\* operations of a tape adjoint_jacobian is applied to
MaxOps == 2
\* circuits of a batch
MaxBatch == 2

\* Python's None where a number is expected, where a vector is expected and
\* where a matrix is expected: no number of the model is negative except
\* eigenvalues, which are never compared with None
None == -1000
NoneVec == <<None>>
NoneMat == << <<None>> >>
\* self._shot_vector is None: the device has no shot vector
NoShotVector == <<>>

(***************************************************************************)
(* Array primitives (numpy).                                               *)
(***************************************************************************)
RECURSIVE Pow2(_)
Pow2(n) == IF n = 0 THEN 1 ELSE 2 * Pow2(n - 1)

\* an array held in memory: the entries of f, each computed once
Array(f) == f \o <<>>

RECURSIVE BitAnd(_, _)
\* a & b on non-negative integers
BitAnd(a, b) ==
    IF a = 0 \/ b = 0 THEN 0
    ELSE 2 * BitAnd(a \div 2, b \div 2) + (IF a % 2 = 1 /\ b % 2 = 1 THEN 1 ELSE 0)

RECURSIVE SumTo(_, _)
\* s[1] + ... + s[n]
SumTo(s, n) == IF n = 0 THEN 0 ELSE s[n] + SumTo(s, n - 1)

\* np.sum(s) for a vector
SeqSum(s) == SumTo(s, Len(s))

\* a[::-1]
Reverse(s) == Array([i \in 1..Len(s) |-> s[Len(s) + 1 - i]])

\* np.arange(n)
Arange(n) == Array([i \in 1..n |-> i - 1])

\* a @ b for two vectors of the same length
Dot(a, b) == SeqSum([i \in 1..Len(a) |-> a[i] * b[i]])

\* 2 ** np.arange(k)[::-1]: the big-endian positional weights
powers_of_two(k) == Array([i \in 1..k |-> Pow2(Reverse(Arange(k))[i])])

\* np.argsort(a) for a vector of distinct integers: element i (0-based) is
\* the 0-based index of the element of a with exactly i smaller elements
Argsort(a) ==
    Array([i \in 1..Len(a) |->
        (CHOOSE j \in 1..Len(a) :
            Cardinality({m \in 1..Len(a) : a[m] < a[j]}) = i - 1) - 1])

\* a[indices] (self._gather)
Gather(a, indices) == Array([i \in 1..Len(indices) |-> a[indices[i] + 1]])

\* m[:, cols] for a matrix given as a sequence of rows
TakeColumns(m, cols) == Array([r \in 1..Len(m) |-> Gather(m[r], cols)])

\* m @ v for a matrix given as a sequence of rows
MatVec(m, v) == Array([r \in 1..Len(m) |-> Dot(m[r], v)])

(***************************************************************************)
(* Basis-state codec.                                                      *)
(***************************************************************************)
\* states_to_binary without the final [:, ::-1]: least significant bit first
states_to_binary_noflip(smp, num_wires) ==
    LET pw == Array([k \in 1..num_wires |-> Pow2(Arange(num_wires)[k])])
    IN  [r \in 1..Len(smp) |->
            [k \in 1..num_wires |-> IF BitAnd(smp[r], pw[k]) > 0 THEN 1 ELSE 0]]

\* states_to_binary(samples, num_wires): 1 << k is Pow2(k); the shift stays
\* below the width of the dtype for every num_wires of the model
states_to_binary(smp, num_wires) ==
    LET pw == Array([k \in 1..num_wires |-> Pow2(Arange(num_wires)[k])])
        states_sampled_base_ten ==
            Array([r \in 1..Len(smp) |->
                Array([k \in 1..num_wires |-> BitAnd(smp[r], pw[k])])])
    IN  Array([r \in 1..Len(smp) |->
            Reverse([k \in 1..num_wires |->
                IF states_sampled_base_ten[r][k] > 0 THEN 1 ELSE 0])])

RECURSIVE Product01(_)
\* list(itertools.product((0, 1), repeat=n)): the last position varies fastest
Product01(n) ==
    IF n = 0 THEN << <<>> >>
    ELSE LET rest == Product01(n - 1)
         IN  [i \in 1..(2 * Len(rest)) |->
                Append(rest[(i + 1) \div 2], (i + 1) % 2)]

RECURSIVE Chain(_)
\* itertools.chain(*rows)
Chain(rows) == IF rows = <<>> THEN <<>> ELSE Head(rows) \o Chain(Tail(rows))

\* The value a failed call yields
Raise(e) == [ok |-> FALSE, err |-> e, val |-> <<>>]
Return(v) == [ok |-> TRUE, err |-> "", val |-> v]

\* a local variable: the value x, computed once, named inside F
Let(x, F(_)) == F(x)

\* flat.reshape(-1, cols): the number of rows cannot be inferred when cols = 0
ReshapeRows(flat, cols) ==
    IF cols = 0 \/ Len(flat) % cols # 0 THEN Raise("ValueError")
    ELSE Return([r \in 1..(Len(flat) \div cols) |->
                    [c \in 1..cols |-> flat[(r - 1) * cols + c]]])

\* the two paths of generate_basis_states
VectorizedPath(num_wires) ==
    states_to_binary(Arange(Pow2(num_wires)), num_wires)

ProductPath(num_wires) == ReshapeRows(Chain(Product01(num_wires)), num_wires)

generate_basis_states(num_wires) ==
    IF 2 < num_wires /\ num_wires < 32
    THEN Return(VectorizedPath(num_wires))
    ELSE ProductPath(num_wires)

(***************************************************************************)
(* Tensors of rank n with axes of size 2, as numpy holds them: the flat     *)
(* vector of their 2^n entries in C order.                                 *)
(***************************************************************************)
Bits == {0, 1}

\* C-order flat index of a multi-index
Ravel(b) == SeqSum([m \in 1..Len(b) |-> b[m] * Pow2(Len(b) - m)])

\* C-order multi-index of a flat index
Unravel(i, k) == Array([m \in 1..k |-> (i \div Pow2(k - m)) % 2])

\* self._reshape(p, [2] * n): a view of the same entries
Reshape(p, n) == p

\* the axes (0-based, ascending) that np.sum(t, axis=axes) keeps
KeptAxes(n, axes) ==
    LET keep == {a \in 0..(n - 1) : a \notin axes}
    IN  [i \in 1..Cardinality(keep) |->
            CHOOSE a \in keep : Cardinality({x \in keep : x < a}) = i - 1]

\* self._reduce_sum(t, axes) on a tensor of rank n: the entry at a
\* multi-index over the kept axes is the sum of the entries of t whose
\* multi-index agrees with it on the kept axes
ReduceSum(t, n, axes) ==
    Let(KeptAxes(n, axes), LAMBDA kept :
    Let(Array([s \in 1..Pow2(n) |-> Ravel(Gather(Unravel(s - 1, n), kept))]), LAMBDA target :
        Array([j \in 1..Pow2(Len(kept)) |->
            SeqSum([s \in 1..Pow2(n) |-> IF target[s] = j - 1 THEN t[s] ELSE 0])])))

\* self._flatten(t) on a tensor of rank k
Flatten(t, k) == t

(***************************************************************************)
(* Wire bookkeeping of the device (Device.map_wires, Device.order_wires,   *)
(* Wires.unique_wires).                                                    *)
(***************************************************************************)
Range(s) == {s[i] : i \in 1..Len(s)}

\* 0-based position of a label in the device's wire order
WireIndex(w) == (CHOOSE i \in 1..Len(wires) : wires[i] = w) - 1

\* self.map_wires(w): the device indices of the labels, in the order given
map_wires(w) == Array([i \in 1..Len(w) |-> WireIndex(w[i])])

\* self.order_wires(w): the labels of w in device order
order_wires(w) == Gather(w, Argsort(map_wires(w)))

\* Wires.unique_wires([self.wires, w]) for w a subset of the device wires:
\* the device wires that are not in w, in device order
unique_wires(w) ==
    LET rest == {i \in 1..Len(wires) : wires[i] \notin Range(w)}
    IN  [i \in 1..Cardinality(rest) |->
            wires[CHOOSE j \in rest : Cardinality({x \in rest : x < j}) = i - 1]]

(***************************************************************************)
(* Probability engine.                                                     *)
(***************************************************************************)
\* the gather indices marginal_prob computes for the device indices of the
\* requested wires
marginal_perm(device_wires) ==
    Let(generate_basis_states(Len(device_wires)), LAMBDA basis_states :
        IF ~basis_states.ok THEN basis_states
        ELSE Return(MatVec(TakeColumns(basis_states.val,
                                       Argsort(Argsort(device_wires))),
                           powers_of_two(Len(device_wires)))))

\* marginal_prob that gathers from prob without summing out any wire
marginal_prob_nosum(p, w) ==
    IF w = NoneVec THEN Return(p)
    ELSE Let(marginal_perm(map_wires(w)), LAMBDA perm :
             IF ~perm.ok THEN perm ELSE Return(Gather(p, perm.val)))

marginal_prob(p, w) ==
    IF w = NoneVec THEN Return(p)
    ELSE
    LET inactive_wires == unique_wires(w)
        device_wires == map_wires(w)
        inactive_device_wires == map_wires(inactive_wires)
        summed == Flatten(ReduceSum(Reshape(p, Len(wires)), Len(wires),
                                    Range(inactive_device_wires)),
                          Len(wires) - Len(inactive_device_wires))
    IN  Let(marginal_perm(device_wires), LAMBDA perm :
            IF ~perm.ok THEN perm
            ELSE Return(Gather(summed, perm.val)))

\* analytic_probability is abstract in QubitDevice; the state-holding device
\* marginalizes the probabilities of its state with marginal_prob
analytic_probability(self, w) == marginal_prob(self.prob, w)

\* the naive choice: the wires in the order the observable is written in
_permute_wires_naive(observable) == observable.wires

_permute_wires(observable) ==
    LET ordered_obs_wire_lst == order_wires(observable.wires)
        mapped_wires == map_wires(observable.wires)
        permutation == Argsort(mapped_wires)
    IN  Gather(ordered_obs_wire_lst, permutation)

(***************************************************************************)
(* Observables.  An observable is a record                                 *)
(*   name        its name ("Tensor" for a tensor product, whose name is a  *)
(*               list in the source, "MeasurementProcess" for a plain wire *)
(*               readout without observable)                               *)
(*   factors     the names of its tensor factors, in written order         *)
(*   wires       its wire labels, in written order (one per factor)        *)
(*   parameters  the basis state of a Projector, <<>> otherwise            *)
(*   return_type its measurement kind                                      *)
(***************************************************************************)
Expectation == "Expectation"
Variance == "Variance"
Sample == "Sample"
Probability == "Probability"
State == "State"
VnEntropy == "VnEntropy"
MutualInfo == "MutualInfo"

\* np.kron(a, b) for two vectors
Kron(a, b) ==
    Array([i \in 1..(Len(a) * Len(b)) |->
        a[((i - 1) \div Len(b)) + 1] * b[((i - 1) % Len(b)) + 1]])

\* eigenvalues of a single-wire factor; <<>> when they are undefined
FactorEigvals(name) ==
    IF name \in {"PauliX", "PauliY", "PauliZ", "Hadamard"} THEN <<1, -1>>
    ELSE IF name = "Identity" THEN <<1, 1>>
    ELSE <<>>

RECURSIVE KronAll(_)
KronAll(fs) ==
    IF fs = <<>> THEN <<1>>
    ELSE Kron(FactorEigvals(Head(fs)), KronAll(Tail(fs)))

\* observable.eigvals(): the Kronecker product of the factors' eigenvalues
\* in written order; a Projector has eigenvalue 1 on its basis state
eigvals(observable) ==
    IF observable.name = "Projector"
    THEN Return([i \in 1..Pow2(Len(observable.wires)) |->
                    IF i - 1 = Ravel(observable.parameters) THEN 1 ELSE 0])
    ELSE IF \E i \in 1..Len(observable.factors) :
                FactorEigvals(observable.factors[i]) = <<>>
    THEN Raise("EigvalsUndefinedError")
    ELSE Return(KronAll(observable.factors))

(***************************************************************************)
(* Values.  A statistic is a rational number or an array of rationals,     *)
(* kept as numerators num over one denominator den.                        *)
(***************************************************************************)
Q(n, d) == [num |-> n, den |-> d]

\* the denominator of the device's probabilities: they sum to 1
Denominator(self) == SeqSum(self.prob)

\* self._samples[sample_slice]: slice(*shot_range) clips to the buffer
SliceRows(rows, shot_range) ==
    IF shot_range = NoneVec THEN rows
    ELSE LET lo == IF shot_range[1] > Len(rows) THEN Len(rows) ELSE shot_range[1]
             hi == IF shot_range[2] > Len(rows) THEN Len(rows) ELSE shot_range[2]
         IN  SubSeq(rows, lo + 1, hi)

\* number of occurrences of v in the vector idx (np.unique, return_counts)
Count(idx, v) == Cardinality({i \in 1..Len(idx) : idx[i] = v})

estimate_probability(self, w, shot_range, bin_size) ==
    LET w2 == IF w = NoneVec \/ w = <<>> THEN wires ELSE w
        device_wires == map_wires(w2)
        smp == TakeColumns(SliceRows(self.samples, shot_range), device_wires)
        indices == MatVec(smp, powers_of_two(Len(device_wires)))
        bins == Len(smp) \div bin_size
        width == Len(indices) \div bins
    IN  IF self.samples = NoneMat THEN Raise("TypeError")
        ELSE IF bin_size # None
        THEN IF bins = 0 \/ Len(indices) % bins # 0 THEN Raise("ValueError")
             ELSE Return(Q([v \in 1..Pow2(Len(device_wires)) |->
                              [b \in 1..bins |->
                                  Count(SubSeq(indices, (b - 1) * width + 1, b * width),
                                        v - 1)]],
                           bin_size))
        ELSE Return(Q([v \in 1..Pow2(Len(device_wires)) |-> Count(indices, v - 1)],
                      Len(smp)))

probability(self, w, shot_range, bin_size) ==
    IF shots = None
    THEN IF self.prob = NoneVec THEN Raise("NotImplementedError")
         ELSE Let(analytic_probability(self, w), LAMBDA p :
                  IF p.ok THEN Return(Q(p.val, Denominator(self))) ELSE p)
    ELSE estimate_probability(self, w, shot_range, bin_size)

(***************************************************************************)
(* Sampling engine and per-observable statistics.                          *)
(***************************************************************************)
\* a[:, c] for a matrix given as a sequence of rows
Column(m, c) == Array([r \in 1..Len(m) |-> m[r][c + 1]])

\* samples.reshape((bin_size, -1)) of a flat vector: bin_size rows
ReshapeBins(flat, bin_size) ==
    IF Len(flat) % bin_size # 0 THEN Raise("ValueError")
    ELSE LET cols == Len(flat) \div bin_size
         IN  Return([r \in 1..bin_size |->
                        [c \in 1..cols |-> flat[(r - 1) * cols + c]]])

\* sample(self, ) yields [rank |-> 1, data |-> vector] or [rank |-> 2, data |-> rows]
sample(self, observable, shot_range, bin_size) ==
    LET device_wires == map_wires(observable.wires)
        name == observable.name
        rows == SliceRows(self.samples, shot_range)
        pauli == [i \in 1..Len(rows) |-> 1 - 2 * Column(rows, device_wires[1])[i]]
        raw == IF Len(observable.wires) # 0 THEN TakeColumns(rows, device_wires)
               ELSE rows
        indices == MatVec(TakeColumns(rows, device_wires),
                          powers_of_two(Len(device_wires)))
        general == Let(eigvals(observable), LAMBDA ev :
                       IF ~ev.ok THEN ev ELSE Return(Gather(ev.val, indices)))
        flat == IF name \in {"PauliX", "PauliY", "PauliZ", "Hadamard"} THEN Return(pauli)
                ELSE IF name = "MeasurementProcess" THEN Return(Chain(raw))
                ELSE general
    IN  IF self.samples = NoneMat THEN Raise("TypeError")
        ELSE Let(flat, LAMBDA f :
             IF ~f.ok THEN f
             ELSE IF bin_size = None
             THEN IF name = "MeasurementProcess" THEN Return([rank |-> 2, data |-> raw])
                  ELSE Return([rank |-> 1, data |-> f.val])
             ELSE Let(ReshapeBins(f.val, bin_size), LAMBDA binned :
                      IF binned.ok THEN Return([rank |-> 2, data |-> binned.val])
                      ELSE binned))

\* the sums of x and of x * x down the columns of a matrix (axis 0)
ColumnSums(m) ==
    [c \in 1..(IF m = <<>> THEN 0 ELSE Len(m[1])) |-> SeqSum(Column(m, c - 1))]
Squares(v) == Array([i \in 1..Len(v) |-> v[i] * v[i]])

\* np.squeeze: an array with one element collapses to that element
Squeeze(v) == IF Len(v) = 1 THEN v[1] ELSE v

\* np.squeeze(np.mean(samples, axis=0))
MeanAxis0(s) ==
    IF s.rank = 1 THEN Q(SeqSum(s.data), Len(s.data))
    ELSE Q(Squeeze(ColumnSums(s.data)), Len(s.data))

\* np.squeeze(np.var(samples, axis=0)): mean(x^2) - mean(x)^2
VarAxis0(s) ==
    IF s.rank = 1
    THEN Q(Len(s.data) * SeqSum(Squares(s.data)) - SeqSum(s.data) * SeqSum(s.data),
           Len(s.data) * Len(s.data))
    ELSE LET sq == [r \in 1..Len(s.data) |-> Squares(s.data[r])]
             s1 == ColumnSums(s.data)
             s2 == ColumnSums(sq)
         IN  Q(Squeeze([c \in 1..Len(s1) |-> Len(s.data) * s2[c] - s1[c] * s1[c]]),
               Len(s.data) * Len(s.data))

\* probs[idx]: an entry of a probability vector or a row of a binned matrix
ProjectorIndex(observable) == Ravel(observable.parameters)

expval(self, observable, shot_range, bin_size) ==
    IF observable.name = "Projector"
    THEN Let(probability(self, observable.wires, shot_range, bin_size), LAMBDA probs :
             IF ~probs.ok THEN probs
             ELSE Return(Q(probs.val.num[ProjectorIndex(observable) + 1],
                           probs.val.den)))
    ELSE IF shots = None
    THEN Let(eigvals(observable), LAMBDA ev :
             IF ~ev.ok THEN ev
             ELSE Let(probability(self, _permute_wires(observable), NoneVec, None),
                      LAMBDA p :
                      IF ~p.ok THEN p
                      ELSE Return(Q(Dot(ev.val, p.val.num), p.val.den))))
    ELSE Let(sample(self, observable, shot_range, bin_size), LAMBDA smp :
             IF ~smp.ok THEN smp ELSE Return(MeanAxis0(smp.val)))

\* p - p ** 2 on numerators: (n * d - n * n) / d ** 2
OneMinus(n, d) == n * d - n * n

var(self, observable, shot_range, bin_size) ==
    IF observable.name = "Projector"
    THEN Let(probability(self, observable.wires, shot_range, bin_size), LAMBDA probs :
             LET n == probs.val.num[ProjectorIndex(observable) + 1]
                 d == probs.val.den
             IN  IF ~probs.ok THEN probs
                 ELSE IF shots # None /\ bin_size # None
                 THEN Return(Q([b \in 1..Len(n) |-> OneMinus(n[b], d)], d * d))
                 ELSE Return(Q(OneMinus(n, d), d * d)))
    ELSE IF shots = None
    THEN Let(eigvals(observable), LAMBDA ev :
             IF ~ev.ok THEN ev
             ELSE Let(probability(self, _permute_wires(observable), NoneVec, None),
                      LAMBDA p :
                      IF ~p.ok THEN p
                      ELSE Return(Q(p.val.den * Dot(Squares(ev.val), p.val.num)
                                      - Dot(ev.val, p.val.num) * Dot(ev.val, p.val.num),
                                    p.val.den * p.val.den))))
    ELSE Let(sample(self, observable, shot_range, bin_size), LAMBDA smp :
             IF ~smp.ok THEN smp ELSE Return(VarAxis0(smp.val)))

(***************************************************************************)
(* Statistics dispatcher.                                                  *)
(***************************************************************************)
\* the device holds a state exactly when it has probabilities to give
StateIsNone(self) == self.prob = NoneVec

\* access_state(self, wires): the state and the density matrix are external; the
\* result records which of the two is returned
access_state(self, w) ==
    IF ~returns_state THEN Raise("QuantumFunctionError")
    ELSE IF StateIsNone(self) THEN Raise("QuantumFunctionError")
    ELSE IF w # NoneVec /\ w # <<>>
    THEN Return([kind |-> "density_matrix", wires |-> w])
    ELSE Return([kind |-> "state", wires |-> <<>>])

vn_entropy(self, w) ==
    IF ~access_state(self, NoneVec).ok THEN Raise("NotImplementedError")
    ELSE Return([kind |-> "vn_entropy", wires |-> w])

mutual_info(self, wires0, wires1) ==
    IF ~access_state(self, NoneVec).ok THEN Raise("NotImplementedError")
    ELSE Return([kind |-> "mutual_info", wires |-> <<wires0, wires1>>])

\* self.wires.labels != tuple(range(self.num_wires))
CustomWireLabels == wires # Arange(Len(wires))

\* results.append(r), unless computing r raised
One(r) == IF r.ok THEN Return(<<r.val>>) ELSE r

\* the loop body without the check that State is the only measurement
StatisticsStep_nocheck(self, observables, obs, shot_range, bin_size) ==
        IF obs.return_type = Expectation
        THEN One(expval(self, obs, shot_range, bin_size))
        ELSE IF obs.return_type = Variance
        THEN One(var(self, obs, shot_range, bin_size))
        ELSE IF obs.return_type = Sample
        THEN One(sample(self, obs, shot_range, bin_size))
        ELSE IF obs.return_type = Probability
        THEN One(probability(self, obs.wires, shot_range, bin_size))
        ELSE IF obs.return_type = State
        THEN IF CustomWireLabels THEN Raise("QuantumFunctionError")
             ELSE One(access_state(self, obs.wires))
        ELSE IF obs.return_type = VnEntropy
        THEN IF CustomWireLabels THEN Raise("QuantumFunctionError")
             ELSE One(vn_entropy(self, obs.wires))
        ELSE IF obs.return_type = MutualInfo
        THEN IF CustomWireLabels THEN Raise("QuantumFunctionError")
             ELSE One(mutual_info(self, obs.raw_wires[1], obs.raw_wires[2]))
        ELSE IF obs.return_type # "None"
        THEN Raise("QuantumFunctionError")
        ELSE Return(<<>>)

\* one iteration of the loop of statistics: a failure, or the sequence of
\* the entries this observable appends to results.  An entry of results
\* carries, next to its value, the position obs of the observable whose
\* iteration appended it.
StatisticsStep(self, observables, obs, shot_range, bin_size) ==
        IF obs.return_type = Expectation
        THEN One(expval(self, obs, shot_range, bin_size))
        ELSE IF obs.return_type = Variance
        THEN One(var(self, obs, shot_range, bin_size))
        ELSE IF obs.return_type = Sample
        THEN One(sample(self, obs, shot_range, bin_size))
        ELSE IF obs.return_type = Probability
        THEN One(probability(self, obs.wires, shot_range, bin_size))
        ELSE IF obs.return_type = State
        THEN IF Len(observables) > 1 THEN Raise("QuantumFunctionError")
             ELSE IF CustomWireLabels THEN Raise("QuantumFunctionError")
             ELSE One(access_state(self, obs.wires))
        ELSE IF obs.return_type = VnEntropy
        THEN IF CustomWireLabels THEN Raise("QuantumFunctionError")
             ELSE One(vn_entropy(self, obs.wires))
        ELSE IF obs.return_type = MutualInfo
        THEN IF CustomWireLabels THEN Raise("QuantumFunctionError")
             ELSE One(mutual_info(self, obs.raw_wires[1], obs.raw_wires[2]))
        ELSE IF obs.return_type # "None"
        THEN Raise("QuantumFunctionError")
        ELSE Return(<<>>)

\* statistics: the loop over the observables.  An iteration has no effect
\* but to append to results or to raise, so the loop returns the entries of
\* all iterations in order, unless an iteration raises: then the first one
\* that raises ends the call.
statistics(self, observables, shot_range, bin_size) ==
    Let([i \in 1..Len(observables) |->
            StatisticsStep(self, observables, observables[i], shot_range, bin_size)],
        LAMBDA steps :
        LET failed == {i \in 1..Len(observables) : ~steps[i].ok}
            first == CHOOSE i \in failed : \A m \in failed : i <= m
            results == Chain([i \in 1..Len(observables) |->
                                [k \in 1..Len(steps[i].val) |->
                                    [obs |-> i, val |-> steps[i].val[k]]]])
        IN  IF failed # {} THEN steps[first] ELSE Return(results))

(***************************************************************************)
(* Inputs.                                                                 *)
(***************************************************************************)
\* the sequences of at most maxlen distinct elements of S
DistinctSeqs(S, maxlen) ==
    UNION {{q \in [1..k -> S] : \A i, j \in 1..k : i # j => q[i] # q[j]} :
              k \in 0..maxlen}

\* wire labels of a device with n wires: 0..n-1, and the custom labels
\* n..1, which are not their own device indices
DeviceWireSets(n) ==
    {Arange(n), [i \in 1..n |-> n + 1 - i]}

\* probability vectors over n wires: every basis state, the uniform
\* distribution and one with pairwise different entries
OneHot(n, i) == Array([j \in 1..Pow2(n) |-> IF j - 1 = i THEN 1 ELSE 0])
Ramp(n) == Array([j \in 1..Pow2(n) |-> j])
Uniform(n) == Array([j \in 1..Pow2(n) |-> 1])
ProbInputs(n) == {OneHot(n, i) : i \in 0..(Pow2(n) - 1)} \cup {Ramp(n), Uniform(n)}

Obs(name, factors, w, parameters, return_type, raw_wires) ==
    [name |-> name, factors |-> factors, wires |-> w, parameters |-> parameters,
     return_type |-> return_type, raw_wires |-> raw_wires]

\* a tensor product of single-wire factors on the wires w, in written order
TensorObs(w, fs, return_type) ==
    Obs(IF Len(w) = 1 THEN fs[1] ELSE "Tensor", fs, w, <<>>, return_type, <<>>)

\* the tensor products of PauliZ and Identity factors on distinct device wires
TensorObservables ==
    UNION {{TensorObs(w, fs, Expectation) : fs \in [1..Len(w) -> {"PauliZ", "Identity"}]} :
              w \in DistinctSeqs(Range(wires), Len(wires)) \ {<<>>}}

\* projectors on one device wire, and an observable without eigenvalues
OtherObservables ==
    UNION {{Obs("Projector", <<"Projector">>, <<w>>, <<b>>, Expectation, <<>>) :
               b \in Bits} \cup
           {Obs("Hamiltonian", <<"Hamiltonian">>, <<w>>, <<>>, Expectation, <<>>)} :
              w \in Range(wires)}

(***************************************************************************)
(* The probability engine applied to every input: the device is analytic   *)
(* and holds an arbitrary state; Init draws the call, the action makes it. *)
(***************************************************************************)
\* ret while the call has not been made
Pending == Raise("pending")

\* no call of adjoint_jacobian is in progress
Idle == [pc |-> "idle"]

\* the device a method is called on: the state it holds and its samples
Self == [prob |-> prob, samples |-> samples]

ProbCalls ==
    {[op |-> "marginal_prob", wires |-> w] :
        w \in DistinctSeqs(Range(wires), Len(wires)) \cup {NoneVec}}
    \cup {[op |-> "_permute_wires", obs |-> o] : o \in TensorObservables}
    \cup {[op |-> "expval", obs |-> o] : o \in TensorObservables \cup OtherObservables}
    \cup {[op |-> "var", obs |-> o] : o \in TensorObservables \cup OtherObservables}

InitProb ==
    /\ \E n \in 1..MaxWires :
          /\ wires \in DeviceWireSets(n)
          /\ prob \in ProbInputs(n)
    /\ shots = None
    /\ returns_state = TRUE
    /\ samples = NoneMat
    /\ num_executions = 0
    /\ circuit = <<>>
    /\ shot_vector = NoShotVector /\ log = <<>> /\ adj = Idle
    /\ call \in ProbCalls
    /\ ret = Pending

Device == <<wires, shots, returns_state, prob, samples, num_executions, circuit,
           shot_vector, log, adj>>

MarginalProb ==
    /\ call.op = "marginal_prob" /\ ret.err = "pending"
    /\ ret' = marginal_prob(prob, call.wires)
    /\ UNCHANGED <<Device, call>>

PermuteWires ==
    /\ call.op = "_permute_wires" /\ ret.err = "pending"
    /\ ret' = Return(_permute_wires(call.obs))
    /\ UNCHANGED <<Device, call>>

Expval ==
    /\ call.op = "expval" /\ ret.err = "pending"
    /\ ret' = expval(Self, call.obs, NoneVec, None)
    /\ UNCHANGED <<Device, call>>

Var ==
    /\ call.op = "var" /\ ret.err = "pending"
    /\ ret' = var(Self, call.obs, NoneVec, None)
    /\ UNCHANGED <<Device, call>>

NextProb == MarginalProb \/ PermuteWires \/ Expval \/ Var

SpecProb == InitProb /\ [][NextProb]_vars

(***************************************************************************)
(* The basis-state codec applied to every input.                           *)
(***************************************************************************)
CodecCalls ==
    UNION {{[op |-> "states_to_binary", samples |-> smp, num_wires |-> n] :
               smp \in UNION {[1..k -> 0..(Pow2(n) - 1)] : k \in 1..2}}
           \cup {[op |-> "generate_basis_states", num_wires |-> n]} :
              n \in 0..MaxBits}

InitCodec ==
    /\ wires = <<0>>
    /\ prob = <<1, 0>>
    /\ shots = None
    /\ returns_state = TRUE
    /\ samples = NoneMat
    /\ num_executions = 0
    /\ circuit = <<>>
    /\ shot_vector = NoShotVector /\ log = <<>> /\ adj = Idle
    /\ call \in CodecCalls
    /\ ret = Pending

StatesToBinary ==
    /\ call.op = "states_to_binary" /\ ret.err = "pending"
    /\ ret' = Return(states_to_binary(call.samples, call.num_wires))
    /\ UNCHANGED <<Device, call>>

GenerateBasisStates ==
    /\ call.op = "generate_basis_states" /\ ret.err = "pending"
    /\ ret' = generate_basis_states(call.num_wires)
    /\ UNCHANGED <<Device, call>>

NextCodec == StatesToBinary \/ GenerateBasisStates

SpecCodec == InitCodec /\ [][NextCodec]_vars

(***************************************************************************)
(* The sampling engine applied to every sample buffer: a device with       *)
(* shots configured holds a buffer of that many shots, a device without    *)
(* shots holds none; Init draws the call, the action makes it.             *)
(***************************************************************************)
\* the sample buffers of n wires: up to MaxRows shots of one wire, one shot
\* fewer for every further wire
SampleBuffers(n) ==
    UNION {[1..r -> [1..n -> Bits]] : r \in 1..(MaxRows + 1 - n)}

\* shot ranges inside a buffer of r shots, and bin sizes up to r
ShotRanges(r) == {NoneVec} \cup {<<a, b>> : a \in 0..1, b \in 1..r}
BinSizes(r) == {None} \cup 1..r

\* observables measured from samples: PauliZ on a device wire, and the raw
\* readout of all wires
SampledObservables ==
    {TensorObs(<<w>>, <<"PauliZ">>, Sample) : w \in Range(wires)}
    \cup {Obs("MeasurementProcess", <<>>, <<>>, <<>>, Sample, <<>>)}

SampleCalls ==
    LET r == IF samples = NoneMat THEN 1 ELSE Len(samples)
    IN  {[op |-> "estimate_probability", wires |-> w, shot_range |-> sr, bin_size |-> bs] :
            w \in DistinctSeqs(Range(wires), Len(wires)) \cup {NoneVec},
            sr \in ShotRanges(r), bs \in BinSizes(r)}
        \cup {[op |-> o, obs |-> ob, shot_range |-> sr, bin_size |-> bs] :
                o \in {"sample", "expval_sampled", "var_sampled"},
                ob \in SampledObservables, sr \in ShotRanges(r), bs \in BinSizes(r)}

InitSamples ==
    /\ \E n \in 1..MaxDevWires :
          /\ wires \in DeviceWireSets(n)
          /\ prob = OneHot(n, 0)
          /\ \/ shots = None /\ samples = NoneMat
             \/ samples \in SampleBuffers(n) /\ shots = Len(samples)
    /\ returns_state = TRUE
    /\ num_executions = 0
    /\ circuit = <<>>
    /\ shot_vector = NoShotVector /\ log = <<>> /\ adj = Idle
    /\ call \in SampleCalls
    /\ ret = Pending

EstimateProbability ==
    /\ call.op = "estimate_probability" /\ ret.err = "pending"
    /\ ret' = estimate_probability(Self, call.wires, call.shot_range, call.bin_size)
    /\ UNCHANGED <<Device, call>>

SampleObservable ==
    /\ call.op = "sample" /\ ret.err = "pending"
    /\ ret' = sample(Self, call.obs, call.shot_range, call.bin_size)
    /\ UNCHANGED <<Device, call>>

ExpvalSampled ==
    /\ call.op = "expval_sampled" /\ ret.err = "pending"
    /\ ret' = expval(Self, call.obs, call.shot_range, call.bin_size)
    /\ UNCHANGED <<Device, call>>

VarSampled ==
    /\ call.op = "var_sampled" /\ ret.err = "pending"
    /\ ret' = var(Self, call.obs, call.shot_range, call.bin_size)
    /\ UNCHANGED <<Device, call>>

NextSamples == EstimateProbability \/ SampleObservable \/ ExpvalSampled \/ VarSampled

SpecSamples == InitSamples /\ [][NextSamples]_vars

(***************************************************************************)
(* The device: constructed, then reset, executed and queried for           *)
(* statistics in any order.  The device is built for one circuit, whose    *)
(* observables Init draws.  shots is None or an integer, so that           *)
(* self._shot_vector is None and execute computes the statistics of all    *)
(* samples at once.                                                        *)
(***************************************************************************)
\* a plain wire readout, or a state / entropy measurement, on the wires w
Readout(w, return_type, raw_wires) ==
    Obs("MeasurementProcess", <<>>, w, <<>>, return_type, raw_wires)

FirstWire == wires[1]
LastWire == wires[Len(wires)]

\* one observable of every measurement kind, on the first device wire
SingleObservables ==
    {TensorObs(<<FirstWire>>, <<"PauliZ">>, rt) :
        rt \in {Expectation, Variance, Sample, Probability, "None", "Counts"}}
    \cup {Obs("Projector", <<"Projector">>, <<FirstWire>>, <<1>>, Expectation, <<>>),
          Obs("Hamiltonian", <<"Hamiltonian">>, <<FirstWire>>, <<>>, Expectation, <<>>),
          Readout(<<>>, Sample, <<>>),
          Readout(<<>>, State, <<>>),
          Readout(<<FirstWire>>, State, <<>>),
          Readout(<<FirstWire>>, VnEntropy, <<>>),
          Readout(<<FirstWire, LastWire>>, MutualInfo, <<<<FirstWire>>, <<LastWire>>>>)}

\* the observables that are combined in requests of several observables
CombinedObservables ==
    {TensorObs(<<FirstWire>>, <<"PauliZ">>, rt) : rt \in {Expectation, Sample, "None"}}
    \cup {Readout(<<>>, State, <<>>)}

Requests ==
    {<<>>} \cup {<<o>> : o \in SingleObservables}
    \cup UNION {[1..k -> CombinedObservables] : k \in 2..MaxObs}

\* the states apply can leave the device in: a basis state, or an equal
\* superposition of the first and the last basis state
StateInputs(n) ==
    {OneHot(n, 0), [j \in 1..Pow2(n) |-> IF j \in {1, Pow2(n)} THEN 1 ELSE 0]}

\* shot_range and bin_size of a direct call of statistics
ShotArgs ==
    {<<NoneVec, None>>, <<<<0, 1>>, 1>>, <<<<0, 2>>, 1>>, <<<<0, 2>>, 2>>}

Init ==
    /\ \E n \in 1..MaxDevWires :
          /\ wires \in DeviceWireSets(n)
          /\ prob = OneHot(n, 0)
    /\ shots \in {None} \cup 1..MaxShots
    /\ shot_vector = NoShotVector
    /\ returns_state \in BOOLEAN
    /\ samples = NoneMat
    /\ num_executions = 0
    /\ circuit \in Requests
    /\ log = <<>>
    /\ adj = Idle
    /\ call = [op |-> "init"]
    /\ ret = Return(<<>>)

Config == <<wires, shots, shot_vector, returns_state, circuit>>

\* An entry of log: what was done, and for a call of statistics its
\* shot_range and bin_size, the sample buffer the device held at that
\* moment (for generate_samples: the buffer it stored) and whether the step
\* succeeded
Event(ev, shot_range, bin_size, buf, ok) ==
    [ev |-> ev, shot_range |-> shot_range, bin_size |-> bin_size, buf |-> buf, ok |-> ok]
ResetEvent == Event("reset", NoneVec, None, NoneMat, TRUE)
ApplyEvent(buf) == Event("apply", NoneVec, None, buf, TRUE)
GenerateEvent(buf, ok) == Event("generate_samples", NoneVec, None, buf, ok)
StatisticsEvent(shot_range, bin_size, buf, ok) ==
    Event("statistics", shot_range, bin_size, buf, ok)

\* reset(): QubitDevice drops the sample buffer
Reset ==
    /\ samples' = NoneMat
    /\ log' = <<ResetEvent>>
    /\ call' = [op |-> "reset"]
    /\ ret' = Return(<<>>)
    /\ UNCHANGED <<Config, prob, num_executions, adj>>

\* the basis states sample_basis_states can draw: those of probability > 0
Support(p) == {i \in 0..(Len(p) - 1) : p[i + 1] > 0}

\* circuit.is_sampled
is_sampled(observables) ==
    \E i \in 1..Len(observables) : observables[i].return_type = Sample

\* samples are generated only while the device holds none
needs_samples_once(observables) ==
    (shots # None \/ is_sampled(observables)) /\ samples = NoneMat

\* the condition under which execute generates samples
needs_samples(observables) == shots # None \/ is_sampled(observables)

\* s2 that counts one copy of every entry
ShotEnd_onecopy(s1, shot_tuple) == s1 + shot_tuple.shots

\* s2 = s1 + np.prod(shot_tuple)
ShotEnd(s1, shot_tuple) == s1 + shot_tuple.shots * shot_tuple.copies

RECURSIVE ShotStart(_, _)
\* s1 when the loop over the shot vector reaches entry i: 0 at first, then
\* the s2 of the entry before
ShotStart(sv, i) ==
    IF i = 1 THEN 0 ELSE ShotEnd(ShotStart(sv, i - 1), sv[i - 1])

\* the rows one entry of the shot vector adds to results: the rows of r.T,
\* one per copy (extend), or r.T as a whole (append); copy names the row
ShotRows(i, shot_tuple, r) ==
    IF shot_tuple.copies > 1
    THEN [c \in 1..shot_tuple.copies |-> [entry |-> i, copy |-> c, stats |-> r]]
    ELSE <<[entry |-> i, copy |-> 0, stats |-> r]>>

\* the statistics part of execute on the device self: one call of
\* statistics per entry of the shot vector, up to the first that raises, or
\* one call on all samples.  Yields what execute returns and its events.
execute_statistics(self, observables) ==
    IF shots # None /\ shot_vector # NoShotVector
    THEN Let([i \in 1..Len(shot_vector) |->
                 statistics(self, observables,
                            <<ShotStart(shot_vector, i),
                              ShotEnd(ShotStart(shot_vector, i), shot_vector[i])>>,
                            shot_vector[i].shots)],
             LAMBDA rs :
             LET failed == {i \in 1..Len(shot_vector) : ~rs[i].ok}
                 first == CHOOSE i \in failed : \A m \in failed : i <= m
                 made == IF failed = {} THEN Len(shot_vector) ELSE first
             IN  [ret |-> IF failed # {} THEN rs[first]
                          ELSE Return(Chain([i \in 1..Len(shot_vector) |->
                                   ShotRows(i, shot_vector[i], rs[i].val)])),
                  log |-> [i \in 1..made |->
                              StatisticsEvent(<<ShotStart(shot_vector, i),
                                                ShotEnd(ShotStart(shot_vector, i),
                                                        shot_vector[i])>>,
                                              shot_vector[i].shots,
                                              self.samples, rs[i].ok)]])
    ELSE Let(statistics(self, observables, NoneVec, None), LAMBDA r :
             [ret |-> r,
              log |-> <<StatisticsEvent(NoneVec, None, self.samples, r.ok)>>])

\* what execute does once apply has left the state applied and the device
\* holds the buffer buf
executed(applied, buf, events, observables) ==
    Let(execute_statistics([prob |-> applied, samples |-> buf], observables),
        LAMBDA st :
        [prob |-> applied, samples |-> buf, ret |-> st.ret,
         log |-> events \o st.log])

\* execute(circuit) on a device that holds the buffer held: the ways it can
\* end.  apply leaves a new state; the samples are generated if shots are
\* configured or the circuit is sampled (sample_basis_states raises without
\* shots); then the statistics of the observables are computed on the new
\* state and samples
execute_holding(held, observables) ==
    UNION {IF needs_samples(observables)
           THEN IF shots = None
                THEN {[prob |-> applied, samples |-> held,
                       ret |-> Raise("QuantumFunctionError"),
                       log |-> <<ApplyEvent(held), GenerateEvent(NoneMat, FALSE)>>]}
                ELSE {executed(applied, states_to_binary(drawn, Len(wires)),
                               <<ApplyEvent(held),
                                 GenerateEvent(states_to_binary(drawn, Len(wires)), TRUE)>>,
                               observables) :
                         drawn \in [1..shots -> Support(applied)]}
           ELSE {executed(applied, held, <<ApplyEvent(held)>>, observables)} :
              applied \in StateInputs(Len(wires))}

\* execute(circuit) on the device as it is
execute(observables) == execute_holding(samples, observables)

\* execute(circuit): an execution that returns is counted
Execute ==
    /\ num_executions < MaxExecutions
    /\ call' = [op |-> "execute"]
    /\ UNCHANGED <<Config, adj>>
    /\ \E o \in execute(circuit) :
          /\ prob' = o.prob
          /\ samples' = o.samples
          /\ ret' = o.ret
          /\ log' = o.log
          /\ num_executions' = IF o.ret.ok THEN num_executions + 1 ELSE num_executions

\* statistics(observables, shot_range, bin_size) on the circuit's observables
Statistics ==
    \E a \in ShotArgs :
        /\ call' = [op |-> "statistics", shot_range |-> a[1], bin_size |-> a[2]]
        /\ ret' = statistics(Self, circuit, a[1], a[2])
        /\ log' = <<StatisticsEvent(a[1], a[2], samples, ret'.ok)>>
        /\ UNCHANGED <<Config, prob, samples, num_executions, adj>>

Next == Reset \/ Execute \/ Statistics

Spec == Init /\ [][Next]_vars

(***************************************************************************)
(* The device with a shot vector: Device sets self._shot_vector to the     *)
(* list of (shots, copies) entries and self.shots to their total.          *)
(***************************************************************************)
ShotTuple(n, c) == [shots |-> n, copies |-> c]

\* the total number of shots of a shot vector
TotalShots(sv) == SeqSum([i \in 1..Len(sv) |-> sv[i].shots * sv[i].copies])

ShotVectors ==
    LET tuples == {ShotTuple(n, c) : n \in 1..MaxShotTotal,
                                     c \in 1..MaxShotTotal}
        fitting == {t \in tuples : t.shots * t.copies <= MaxShotTotal}
    IN  {sv \in UNION {[1..k -> fitting] : k \in 1..MaxShotTotal} :
            TotalShots(sv) <= MaxShotTotal}

\* circuits of a finite-shot device: an expectation, samples, two
\* statistics, and one whose statistics raise
ShotRequests ==
    {<<TensorObs(<<FirstWire>>, <<"PauliZ">>, Expectation)>>,
     <<TensorObs(<<LastWire>>, <<"PauliZ">>, Sample)>>,
     <<TensorObs(<<FirstWire>>, <<"PauliZ">>, Expectation),
       TensorObs(<<LastWire>>, <<"PauliZ">>, Variance)>>,
     <<TensorObs(<<FirstWire>>, <<"PauliZ">>, Expectation), Readout(<<>>, State, <<>>)>>}

InitShots ==
    /\ wires = <<0, 1>>
    /\ prob = OneHot(Len(wires), 0)
    /\ \/ shot_vector = NoShotVector /\ shots \in {None} \cup 1..MaxShotTotal
       \/ shot_vector \in ShotVectors /\ shots = TotalShots(shot_vector)
    /\ returns_state = TRUE
    /\ samples = NoneMat
    /\ num_executions = 0
    /\ circuit \in ShotRequests
    /\ log = <<>>
    /\ adj = Idle
    /\ call = [op |-> "init"]
    /\ ret = Return(<<>>)

\* any sequence of reset and execute calls
NextShots == Reset \/ Execute

SpecShots == InitShots /\ [][NextShots]_vars

(***************************************************************************)
(* batch_execute(circuits).                                                *)
(***************************************************************************)
\* where batch_execute stands before a circuit: the device, the results
\* collected and the events so far
BatchState(p, buf, executions, results, events) ==
    [prob |-> p, samples |-> buf, executions |-> executions,
     results |-> results, log |-> events]

RECURSIVE batch_execute_noreset(_, _, _)
\* the loop without self.reset()
batch_execute_noreset(circuits, k, st) ==
    IF k > Len(circuits)
    THEN {[prob |-> st.prob, samples |-> st.samples, executions |-> st.executions,
           log |-> st.log, ret |-> Return(st.results)]}
    ELSE UNION {IF o.ret.ok
                THEN batch_execute_noreset(circuits, k + 1,
                         BatchState(o.prob, o.samples, st.executions + 1,
                                    Append(st.results, o.ret.val),
                                    st.log \o o.log))
                ELSE {[prob |-> o.prob, samples |-> o.samples,
                       executions |-> st.executions,
                       log |-> st.log \o o.log, ret |-> o.ret]} :
                   o \in execute_holding(st.samples, circuits[k])}

RECURSIVE batch_execute(_, _, _)
\* batch_execute(circuits) from circuit k on: the ways it can end.  Every
\* circuit is executed on the device just reset; an execute that raises
\* ends the call
batch_execute(circuits, k, st) ==
    IF k > Len(circuits)
    THEN {[prob |-> st.prob, samples |-> st.samples, executions |-> st.executions,
           log |-> st.log, ret |-> Return(st.results)]}
    ELSE UNION {IF o.ret.ok
                THEN batch_execute(circuits, k + 1,
                         BatchState(o.prob, o.samples, st.executions + 1,
                                    Append(st.results, o.ret.val),
                                    st.log \o <<ResetEvent>> \o o.log))
                ELSE {[prob |-> o.prob, samples |-> o.samples,
                       executions |-> st.executions,
                       log |-> st.log \o <<ResetEvent>> \o o.log, ret |-> o.ret]} :
                   o \in execute_holding(NoneMat, circuits[k])}

\* the circuits of a batch: two statistics, samples, and one whose
\* statistics raise
BatchCircuits ==
    {<<TensorObs(<<FirstWire>>, <<"PauliZ">>, Expectation),
       TensorObs(<<LastWire>>, <<"PauliZ">>, Variance)>>,
     <<TensorObs(<<LastWire>>, <<"PauliZ">>, Sample)>>,
     <<TensorObs(<<FirstWire>>, <<"PauliZ">>, Expectation), Readout(<<>>, State, <<>>)>>}

\* the batches: up to MaxBatch circuits
Batches == UNION {[1..k -> BatchCircuits] : k \in 0..MaxBatch}

\* a device of two wires, with or without shots
InitBatch ==
    /\ wires = <<0, 1>>
    /\ prob = OneHot(Len(wires), 0)
    /\ shots \in {None, 1}
    /\ shot_vector = NoShotVector
    /\ returns_state = TRUE
    /\ samples = NoneMat
    /\ num_executions = 0
    /\ circuit = <<>>
    /\ log = <<>>
    /\ adj = Idle
    /\ call = [op |-> "init"]
    /\ ret = Return(<<>>)

\* batch_execute(circuits)
BatchExecute ==
    /\ num_executions < MaxExecutions
    /\ UNCHANGED <<Config, adj>>
    /\ \E circuits \in Batches :
          /\ call' = [op |-> "batch_execute", circuits |-> circuits]
          /\ \E o \in batch_execute(circuits, 1,
                          BatchState(prob, samples, num_executions, <<>>, <<>>)) :
                /\ prob' = o.prob
                /\ samples' = o.samples
                /\ num_executions' = o.executions
                /\ log' = o.log
                /\ ret' = o.ret

\* any sequence of batches: a later one finds the device as the one
\* before left it
NextBatch == BatchExecute

SpecBatch == InitBatch /\ [][NextBatch]_vars

(***************************************************************************)
(* adjoint_jacobian(tape, starting_state, use_device_state).               *)
(*                                                                         *)
(* The call is a frame held in adj: its arguments, its local variables and *)
(* its position pc.  The walk over expanded_ops takes two steps per        *)
(* operation, so that the state between op.inv() and op.inv() is a state   *)
(* of the model.  The state vectors are symbolic: ket is the state the     *)
(* walk started from and the operations applied to it, a column of the     *)
(* Jacobian is the operation differentiated and the ket it was applied to. *)
(***************************************************************************)
\* op.grad_method is None
NoGradMethod == "None"

\* The operations of a tape, by the attributes adjoint_jacobian reads:
\* name, num_params and grad_method
OpKind(name, num_params, grad_method) ==
    [name |-> name, num_params |-> num_params, grad_method |-> grad_method]

OpKinds ==
    {OpKind("RX", 1, "A"), OpKind("PauliX", 0, NoGradMethod),
     OpKind("QubitUnitary", 1, NoGradMethod),
     OpKind("QubitStateVector", 1, NoGradMethod),
     OpKind("Rot", 3, "A"), OpKind("CRot", 3, "A")}

\* A reference to an operation object: object obj of the tape, or the
\* object Rot.decomposition() made as its part-th operation when the loop
\* was at position pos of tape.operations
TapeRef(obj) == [obj |-> obj, pos |-> 0, part |-> 0]
FreshRef(pos, part) == [obj |-> 0, pos |-> pos, part |-> part]
NoRef == [obj |-> 0, pos |-> 0, part |-> 0]

\* Rot.decomposition(): RZ(phi), RY(theta), RZ(omega), new objects
decomposition(pos) == <<FreshRef(pos, 1), FreshRef(pos, 2), FreshRef(pos, 3)>>

\* the attributes of the operation a reference names
OpOf(tape, ref) ==
    IF ref.obj > 0 THEN tape.objs[ref.obj]
    ELSE OpKind(IF ref.part = 2 THEN "RY" ELSE "RZ", 1, "A")

\* op.inv(): the inverse flag of the object is toggled; inverse is the set
\* of the objects whose flag is set
inv(inverse, ref) ==
    IF ref \in inverse THEN inverse \ {ref} ELSE inverse \cup {ref}

\* the elements of a set of numbers in ascending order
Ascending(S) ==
    Array([i \in 1..Cardinality(S) |->
              CHOOSE k \in S : Cardinality({m \in S : m < k}) = i - 1])

\* len(tape.get_parameters(trainable_only=False, operations_only=True))
NumOperationParams(tape) ==
    SeqSum([p \in 1..Len(tape.operations) |->
               tape.objs[tape.operations[p]].num_params])

\* the parameters of the measured observables follow those of the operations
NumObservableParams(tape) ==
    SeqSum([i \in 1..Len(tape.measurements) |->
               Len(tape.measurements[i].parameters)])

\* hasattr(tape._par_info[k]["op"], "return_type"): parameter k belongs to
\* a measured observable
OwnedByObservable(tape, k) == k >= NumOperationParams(tape)

\* the measurement loop that lets a Hamiltonian pass
CheckMeasurements_nohamiltonian(measurements) ==
    IF \E i \in 1..Len(measurements) : measurements[i].return_type # Expectation
    THEN Raise("QuantumFunctionError")
    ELSE Return(<<>>)

\* the loop over tape.measurements: every measurement is an expectation
\* and no observable is a Hamiltonian
CheckMeasurements(measurements) ==
    IF \E i \in 1..Len(measurements) :
          \/ measurements[i].return_type # Expectation
          \/ measurements[i].name = "Hamiltonian"
    THEN Raise("QuantumFunctionError")
    ELSE Return(<<>>)

\* the state initialisation in which use_device_state comes first
initial_state_devicefirst(starting_state, use_device_state, observables) ==
    IF use_device_state
    THEN {[prob |-> prob, samples |-> samples, executions |-> num_executions,
           log |-> <<>>, ket |-> Return(prob)]}
    ELSE IF starting_state # NoneVec
    THEN {[prob |-> prob, samples |-> samples, executions |-> num_executions,
           log |-> <<>>, ket |-> Return(starting_state)]}
    ELSE {[prob |-> o.prob, samples |-> o.samples,
           executions |-> IF o.ret.ok THEN num_executions + 1 ELSE num_executions,
           log |-> <<ResetEvent>> \o o.log,
           ket |-> IF o.ret.ok THEN Return(o.prob) ELSE o.ret] :
             o \in execute_holding(NoneMat, observables)}

\* Initialization of state: the ways it can end.  ket is starting_state if
\* one is given; else self._pre_rotated_state, after reset() and
\* execute(tape) unless use_device_state.  The device state is known by its
\* probabilities prob.
initial_state(starting_state, use_device_state, observables) ==
    IF starting_state # NoneVec
    THEN {[prob |-> prob, samples |-> samples, executions |-> num_executions,
           log |-> <<>>, ket |-> Return(starting_state)]}
    ELSE IF ~use_device_state
    THEN {[prob |-> o.prob, samples |-> o.samples,
           executions |-> IF o.ret.ok THEN num_executions + 1 ELSE num_executions,
           log |-> <<ResetEvent>> \o o.log,
           ket |-> IF o.ret.ok THEN Return(o.prob) ELSE o.ret] :
             o \in execute_holding(NoneMat, observables)}
    ELSE {[prob |-> prob, samples |-> samples, executions |-> num_executions,
           log |-> <<>>, ket |-> Return(prob)]}

\* the loop body that adds a decomposition in forward order
ExpandOp_unreversed(tape, inverse, pos) ==
    LET obj == tape.operations[pos]
        op == tape.objs[obj]
    IN  IF op.num_params > 1
        THEN IF op.name = "Rot" /\ TapeRef(obj) \notin inverse
             THEN Return(decomposition(pos))
             ELSE Raise("QuantumFunctionError")
        ELSE IF op.name \in {"QubitStateVector", "BasisState", "Snapshot"}
             THEN Return(<<>>)
             ELSE Return(<<TapeRef(obj)>>)

\* what the loop over reversed(tape.operations) does with the operation at
\* position pos: a Rot that is not inverse is replaced by its reversed
\* decomposition, another operation of several parameters raises, a state
\* preparation or snapshot is skipped
ExpandOp(tape, inverse, pos) ==
    LET obj == tape.operations[pos]
        op == tape.objs[obj]
    IN  IF op.num_params > 1
        THEN IF op.name = "Rot" /\ TapeRef(obj) \notin inverse
             THEN Return(Reverse(decomposition(pos)))
             ELSE Raise("QuantumFunctionError")
        ELSE IF op.name \in {"QubitStateVector", "BasisState", "Snapshot"}
             THEN Return(<<>>)
             ELSE Return(<<TapeRef(obj)>>)

\* op.name in the error of the loop: the last operation of the tape that
\* is rejected is the first the reversed loop reaches
RejectedOp(tape, inverse) ==
    LET failing == {pos \in 1..Len(tape.operations) : ~ExpandOp(tape, inverse, pos).ok}
        last == CHOOSE pos \in failing : \A q \in failing : q <= pos
    IN  IF failing = {} THEN "" ELSE tape.objs[tape.operations[last]].name

\* expanded_ops
expanded_ops(tape, inverse) ==
    LET n == Len(tape.operations)
    IN  IF \E pos \in 1..n : ~ExpandOp(tape, inverse, pos).ok
        THEN Raise("QuantumFunctionError")
        ELSE Return(Chain([k \in 1..n |-> ExpandOp(tape, inverse, n + 1 - k).val]))

\* trainable_params that keeps the parameters of the observables
trainable_params_unfiltered(tape) == Ascending(tape.trainable_params)

\* trainable_params: those of tape.trainable_params, in order, that do not
\* belong to a measured observable
trainable_params(tape) ==
    Ascending({k \in tape.trainable_params : ~OwnedByObservable(tape, k)})

\* d_op_matrix before the first operation_derivative(op)
NoDerivative == [op |-> NoRef, inverse |-> FALSE, at |-> 0]

\* the derivative taken of the operation after op.inv()
operation_derivative_inverted(f) ==
    [op |-> f.expanded_ops[f.i],
     inverse |-> f.expanded_ops[f.i] \notin f.inverse,
     at |-> f.i]

\* operation_derivative(op) in pass i of the walk: the derivative of the
\* matrix of op, in the direction op has at that moment
operation_derivative(f) ==
    [op |-> f.expanded_ops[f.i],
     inverse |-> f.expanded_ops[f.i] \in f.inverse,
     at |-> f.i]

\* self._apply_unitary(ket, d_op_matrix, op.wires): a new state
apply_unitary(ket, d_op_matrix) == [d_op |-> d_op_matrix, ket |-> ket]

\* the derivative applied to the ket of before the pass
ket_temp_preinversion(f) ==
    apply_unitary([f.ket EXCEPT !.applied = SubSeq(@, 1, Len(@) - 1)], f.d_op_matrix)

\* ket_temp = self._apply_unitary(ket, d_op_matrix, op.wires)
ket_temp(f) == apply_unitary(f.ket, f.d_op_matrix)

\* bras[kk, ...] = self._apply_operation(ket, tape.observables[kk]): the
\* observable applied to the ket of that moment, no operation applied since
initial_bras(ket, n_obs) ==
    [kk \in 1..n_obs |-> [observable |-> kk, of |-> ket, applied |-> <<>>]]

\* the loop over the bras that reaches the first one only
apply_to_bras_first(bras, ref) ==
    [kk \in 1..Len(bras) |->
        IF kk = 1 THEN [bras[kk] EXCEPT !.applied = Append(@, ref)] ELSE bras[kk]]

\* bras[kk, ...] = self._apply_operation(bras[kk, ...], op) for every kk
apply_to_bras(bras, ref) ==
    [kk \in 1..Len(bras) |-> [bras[kk] EXCEPT !.applied = Append(@, ref)]]

\* a column of np.zeros: never written
ZeroColumn ==
    [writes |-> 0,
     ket_temp |-> apply_unitary([state |-> NoneVec, applied |-> <<>>], NoDerivative),
     bras |-> <<>>]

\* jac[:, j] = 2 * dot_product_real(bras, ket_temp), j a Python index
SetColumn(jac, j, bras, perturbed) ==
    LET n == Len(jac.cols)
        c == IF j < 0 THEN j + n ELSE j
    IN  IF c < 0 \/ c >= n THEN Raise("IndexError")
        ELSE Return([jac EXCEPT !.cols[c + 1] =
                        [writes |-> @.writes + 1, ket_temp |-> perturbed,
                         bras |-> bras]])

\* the frame of a call that has not begun
Frame(tape, inverse, starting_state, use_device_state) ==
    [pc |-> "entry", tape |-> tape,
     starting_state |-> starting_state, use_device_state |-> use_device_state,
     inverse |-> inverse, entry_inverse |-> inverse,
     warnings |-> {},
     ket |-> [state |-> NoneVec, applied |-> <<>>],
     bras |-> <<>>,
     expanded_ops |-> <<>>, rejected |-> "", trainable_params |-> <<>>,
     jac |-> [rows |-> 0, cols |-> <<>>],
     param_number |-> 0, trainable_param_number |-> 0,
     d_op_matrix |-> NoDerivative, i |-> 1]

\* from the bras to the first operation of the walk, on a frame whose ket
\* is initialised
Prepare(f) ==
    LET ops == expanded_ops(f.tape, f.inverse)
        kept == trainable_params(f.tape)
        bras == initial_bras(f.ket, Len(f.tape.measurements))
    IN  IF ~ops.ok
        THEN [f EXCEPT !.pc = "raised", !.bras = bras,
                       !.rejected = RejectedOp(f.tape, f.inverse)]
        ELSE [f EXCEPT
                !.pc = "walk",
                !.bras = bras,
                !.expanded_ops = ops.val,
                !.trainable_params = kept,
                !.warnings = @ \cup
                    IF \E k \in f.tape.trainable_params : OwnedByObservable(f.tape, k)
                    THEN {"observable parameter"} ELSE {},
                !.jac = [rows |-> Len(f.tape.measurements),
                         cols |-> [c \in 1..Len(kept) |-> ZeroColumn]],
                !.param_number = NumOperationParams(f.tape) - 1,
                !.trainable_param_number = Len(kept) - 1]

\* first half of a pass of the walk: d_op_matrix, op.inv(), and the ket
\* with the inverted operation applied
WalkInvert(f) ==
    LET ref == f.expanded_ops[f.i]
        op == OpOf(f.tape, ref)
    IN  [f EXCEPT
           !.pc = "inverted",
           !.d_op_matrix =
               IF op.grad_method # NoGradMethod
                    /\ f.param_number \in Range(f.trainable_params)
               THEN operation_derivative(f) ELSE @,
           !.inverse = inv(@, ref),
           !.ket.applied = Append(@, ref)]

\* the second half without the closing op.inv()
WalkRestore_keepinverted(f) ==
    LET ref == f.expanded_ops[f.i]
        op == OpOf(f.tape, ref)
        hit == f.param_number \in Range(f.trainable_params)
        written == IF op.grad_method # NoGradMethod /\ hit
                   THEN SetColumn(f.jac, f.trainable_param_number, f.bras, ket_temp(f))
                   ELSE Return(f.jac)
    IN  IF ~written.ok THEN [f EXCEPT !.pc = "raised"]
        ELSE [f EXCEPT
                !.pc = "walk",
                !.jac = written.val,
                !.trainable_param_number =
                    IF op.grad_method # NoGradMethod /\ hit THEN @ - 1 ELSE @,
                !.param_number = IF op.grad_method # NoGradMethod THEN @ - 1 ELSE @,
                !.bras = apply_to_bras(@, ref),
                !.i = @ + 1]

\* second half of a pass of the walk: the column of the Jacobian, the two
\* counters, the bras, and op.inv() again
WalkRestore(f) ==
    LET ref == f.expanded_ops[f.i]
        op == OpOf(f.tape, ref)
        hit == f.param_number \in Range(f.trainable_params)
        written == IF op.grad_method # NoGradMethod /\ hit
                   THEN SetColumn(f.jac, f.trainable_param_number, f.bras, ket_temp(f))
                   ELSE Return(f.jac)
    IN  IF ~written.ok THEN [f EXCEPT !.pc = "raised"]
        ELSE [f EXCEPT
                !.pc = "walk",
                !.jac = written.val,
                !.trainable_param_number =
                    IF op.grad_method # NoGradMethod /\ hit THEN @ - 1 ELSE @,
                !.param_number = IF op.grad_method # NoGradMethod THEN @ - 1 ELSE @,
                !.bras = apply_to_bras(@, ref),
                !.inverse = inv(@, ref),
                !.i = @ + 1]

RECURSIVE Walk(_)
\* the walk from frame f to its end
Walk(f) ==
    IF f.pc # "walk" \/ f.i > Len(f.expanded_ops) THEN f
    ELSE Walk(WalkRestore(WalkInvert(f)))

\* the measurements of a tape: expectations of PauliZ and of a Projector
\* (one parameter), a variance, samples, the expectation of a Hamiltonian
AdjointMeasurements ==
    LET z(return_type) == TensorObs(<<FirstWire>>, <<"PauliZ">>, return_type)
        projector == Obs("Projector", <<"Projector">>, <<FirstWire>>, <<0>>,
                         Expectation, <<>>)
        hamiltonian == Obs("Hamiltonian", <<"Hamiltonian">>, <<FirstWire>>, <<>>,
                           Expectation, <<>>)
    IN  {<<z(Expectation)>>, <<projector>>, <<projector, z(Expectation)>>,
         <<z(Variance)>>, <<hamiltonian>>, <<z(Expectation), z(Sample)>>}

\* the operations of a tape: up to MaxOps objects, each once, or once more
\* with the first object again at the end
AdjointOperations ==
    UNION {{[objs |-> objs, operations |-> [p \in 1..Len(objs) |-> p]] :
               objs \in [1..k -> OpKinds]} : k \in 0..MaxOps}
    \cup UNION {{[objs |-> objs, operations |-> [p \in 1..Len(objs) |-> p] \o <<1>>] :
                    objs \in [1..k -> OpKinds]} : k \in 1..(MaxOps - 1)}

\* tape.trainable_params: none, all, those of the operations, or one
TrainableSets(nops, nobs) ==
    {{}, 0..(nops + nobs - 1), 0..(nops - 1)} \cup {{k} : k \in 0..(nops + nobs - 1)}

AdjointTapes ==
    UNION {UNION {{[objs |-> o.objs, operations |-> o.operations,
                    measurements |-> ms, trainable_params |-> t] :
                      t \in TrainableSets(
                              NumOperationParams([objs |-> o.objs,
                                                  operations |-> o.operations]),
                              SeqSum([i \in 1..Len(ms) |-> Len(ms[i].parameters)]))} :
                     ms \in AdjointMeasurements} :
              o \in AdjointOperations}

\* A device of one wire, with or without shots, in the state an earlier
\* execution left, and a call of adjoint_jacobian: every way of
\* initialising the state on a tape of at most one operation, or any tape
\* with a starting_state
InitAdjoint ==
    /\ wires = <<0>>
    /\ shots \in {None, 1}
    /\ shot_vector = NoShotVector
    /\ returns_state = TRUE
    /\ prob \in StateInputs(1)
    /\ samples = NoneMat
    /\ num_executions = 0
    /\ log = <<>>
    /\ call = [op |-> "init"]
    /\ ret = Return(<<>>)
    /\ \E tape \in AdjointTapes :
          /\ circuit = tape.measurements
          /\ \E inverse \in SUBSET {TapeRef(obj) : obj \in 1..Len(tape.objs)},
                starting_state \in {NoneVec} \cup {OneHot(1, 1)},
                use_device_state \in BOOLEAN :
                /\ \/ Len(tape.operations) <= 1
                   \/ starting_state # NoneVec /\ ~use_device_state /\ shots = None
                /\ adj = Frame(tape, inverse, starting_state, use_device_state)

\* adjoint_jacobian up to the walk: the measurements are checked, finite
\* shots are warned of, the state is initialised, the operations are
\* expanded, the trainable parameters filtered and the Jacobian allocated
AdjointCall ==
    /\ adj.pc = "entry"
    /\ call' = [op |-> "adjoint_jacobian"]
    /\ UNCHANGED Config
    /\ IF ~CheckMeasurements(adj.tape.measurements).ok
       THEN /\ adj' = [adj EXCEPT !.pc = "raised"]
            /\ ret' = CheckMeasurements(adj.tape.measurements)
            /\ log' = <<>>
            /\ UNCHANGED <<prob, samples, num_executions>>
       ELSE \E s \in initial_state(adj.starting_state, adj.use_device_state,
                                   adj.tape.measurements) :
              /\ prob' = s.prob
              /\ samples' = s.samples
              /\ num_executions' = s.executions
              /\ log' = s.log
              /\ LET warned == [adj EXCEPT !.warnings =
                                   IF shots # None THEN {"finite shots"} ELSE {}]
                     f == IF s.ket.ok
                          THEN Prepare([warned EXCEPT !.ket.state = s.ket.val])
                          ELSE [warned EXCEPT !.pc = "raised"]
                 IN  /\ adj' = f
                     /\ ret' = IF ~s.ket.ok THEN s.ket
                               ELSE IF f.pc = "raised" THEN Raise("QuantumFunctionError")
                               ELSE Return(<<>>)

\* for op in expanded_ops, up to ket = self._apply_operation(ket, op)
AdjointInvert ==
    /\ adj.pc = "walk"
    /\ adj.i <= Len(adj.expanded_ops)
    /\ adj' = WalkInvert(adj)
    /\ UNCHANGED <<Config, prob, samples, num_executions, log, call, ret>>

\* the rest of the pass, down to the second op.inv()
AdjointRestore ==
    /\ adj.pc = "inverted"
    /\ adj' = WalkRestore(adj)
    /\ ret' = IF adj'.pc = "raised" THEN Raise("IndexError") ELSE ret
    /\ UNCHANGED <<Config, prob, samples, num_executions, log, call>>

\* return jac
AdjointReturn ==
    /\ adj.pc = "walk"
    /\ adj.i > Len(adj.expanded_ops)
    /\ adj' = [adj EXCEPT !.pc = "returned"]
    /\ ret' = Return(adj.jac)
    /\ UNCHANGED <<Config, prob, samples, num_executions, log, call>>

NextAdjoint == AdjointCall \/ AdjointInvert \/ AdjointRestore \/ AdjointReturn

SpecAdjoint == InitAdjoint /\ [][NextAdjoint]_vars

(***************************************************************************)
(* Properties of the probability engine.                                   *)
(***************************************************************************)
Returned(op) == call.op = op /\ ret.err # "pending"

\* the value wire label w holds in the device basis state with flat index s
WireBit(s, w) == Unravel(s, Len(wires))[WireIndex(w) + 1]

\* C3: marginal_prob returns prob unchanged when wires is None and when
\* wires is an empty wire collection
C3_UnsetOrEmptyWiresReturnProb ==
    (Returned("marginal_prob") /\ call.wires \in {NoneVec, <<>>})
        => (ret.ok /\ ret.val = prob)

\* C4: entry j of marginal_prob's result is the sum of the probabilities of
\* the device basis states in which the k-th requested wire holds the k-th
\* most significant bit of j
C4_EntryIsSumOverMatchingStates ==
    (Returned("marginal_prob") /\ call.wires \notin {NoneVec, <<>>})
        => /\ ret.ok
           /\ \A j \in 0..(Pow2(Len(call.wires)) - 1) :
                 ret.val[j + 1] =
                    SeqSum([s \in 1..Len(prob) |->
                        IF \A k \in 1..Len(call.wires) :
                              WireBit(s - 1, call.wires[k]) = Unravel(j, Len(call.wires))[k]
                        THEN prob[s] ELSE 0])

\* C5: marginal_prob over the full device wire set in device order returns
\* prob entry for entry, for every number of wires
C5_FullWireSetIsIdentity ==
    (Returned("marginal_prob") /\ call.wires = wires)
        => (ret.ok /\ ret.val = prob)

C5_Witness ==
    /\ Returned("marginal_prob") /\ call.wires = wires
    /\ Len(wires) = 3 /\ prob = Ramp(3) /\ ret.ok

\* C6: for a non-empty set of requested wires in any order the result has
\* 2^(number of requested wires) entries, they sum to the sum of the input,
\* and the gather indices are a permutation of 0 .. 2^k - 1, so that every
\* summed entry is gathered exactly once
C6_MassPreserved ==
    (Returned("marginal_prob") /\ call.wires \notin {NoneVec, <<>>})
        => LET k == Len(call.wires)
               perm == marginal_perm(map_wires(call.wires))
           IN  /\ ret.ok
               /\ Len(ret.val) = Pow2(k)
               /\ SeqSum(ret.val) = SeqSum(prob)
               /\ perm.ok /\ Len(perm.val) = Pow2(k)
               /\ \A m \in 0..(Pow2(k) - 1) :
                     Cardinality({j \in 1..Pow2(k) : perm.val[j] = m}) = 1

C6_Witness ==
    /\ Returned("marginal_prob") /\ ret.ok
    /\ Len(wires) = 3 /\ Len(call.wires) = 2
    /\ map_wires(call.wires) = <<2, 0>>
    /\ prob = Ramp(3)

\* the observable with the same factors on the same wires, written in
\* device order
InDeviceOrder(observable) ==
    LET order == Argsort(map_wires(observable.wires))
    IN  [observable EXCEPT !.wires = Gather(observable.wires, order),
                           !.factors = Gather(observable.factors, order)]

IsTensorCall ==
    \A i \in 1..Len(call.obs.factors) : call.obs.factors[i] \in {"PauliZ", "Identity"}

\* C7: in analytic mode expval and var of a tensor product do not depend on
\* the written order of its factors: every written order yields the value
\* of the same factors written in device order
C7_FactorOrderInvariance ==
    /\ (Returned("expval") /\ IsTensorCall)
          => (ret.ok /\ ret = expval(Self, InDeviceOrder(call.obs), NoneVec, None))
    /\ (Returned("var") /\ IsTensorCall)
          => (ret.ok /\ ret = var(Self, InDeviceOrder(call.obs), NoneVec, None))

C7_Witness ==
    /\ Returned("expval") /\ ret.ok
    /\ Len(wires) = 3
    /\ map_wires(call.obs.wires) = <<2, 0, 1>>
    /\ call.obs.factors = <<"PauliZ", "Identity", "Identity">>
    /\ prob = Ramp(3)

\* the label among ws that has exactly r of the labels of ws before it in
\* device order
WireOfRank(ws, r) ==
    CHOOSE w \in Range(ws) :
        Cardinality({v \in Range(ws) : WireIndex(v) < WireIndex(w)}) = r

\* the 0-based position of label w inside ws
PositionIn(ws, w) == (CHOOSE i \in 1..Len(ws) : ws[i] = w) - 1

\* C8: _permute_wires returns every wire of the observable exactly once;
\* its element i is the wire of device-order rank p, where p is the position
\* inside observable.wires of the wire of device-order rank i; wires in
\* device order come back unchanged, and [2, 0, 1] on device wires
\* [0, 1, 2] gives [1, 2, 0]
C8_PermuteWires ==
    Returned("_permute_wires") =>
        LET ws == call.obs.wires
        IN  /\ Len(ret.val) = Len(ws)
            /\ Range(ret.val) = Range(ws)
            /\ \A i \in 0..(Len(ws) - 1) :
                  ret.val[i + 1] = WireOfRank(ws, PositionIn(ws, WireOfRank(ws, i)))
            /\ (\A i \in 1..(Len(ws) - 1) : WireIndex(ws[i]) < WireIndex(ws[i + 1]))
                  => ret.val = ws
            /\ (wires = <<0, 1, 2>> /\ ws = <<2, 0, 1>>)
                  => (ret.val = <<1, 2, 0>> /\ ret.val # <<2, 0, 1>>)

C8_Witness ==
    /\ Returned("_permute_wires")
    /\ wires = <<0, 1, 2>> /\ call.obs.wires = <<2, 0, 1>>
    /\ ret.val = <<1, 2, 0>>

(***************************************************************************)
(* Properties of the basis-state codec.                                    *)
(***************************************************************************)
\* C9: encoding the bits of states_to_binary(i, n) with the big-endian
\* weights 2^(n-1-k) gives i again for 0 <= i < 2^n; every bit is 0 or 1
\* and the first wire is the most significant bit
C9_CodecRoundTrip ==
    Returned("states_to_binary") =>
        LET n == call.num_wires
        IN  /\ Len(ret.val) = Len(call.samples)
            /\ \A r \in 1..Len(call.samples) :
                  /\ Len(ret.val[r]) = n
                  /\ \A k \in 1..n : ret.val[r][k] \in Bits
                  /\ Dot(ret.val[r], powers_of_two(n)) = call.samples[r]
                  /\ n > 0 => ret.val[r][1] = call.samples[r] \div Pow2(n - 1)

C9_Witness ==
    /\ Returned("states_to_binary")
    /\ call.num_wires = 3 /\ call.samples = <<6, 1>>
    /\ ret.val = << <<1, 1, 0>>, <<0, 0, 1>> >>

StatisticsDone == call.op \in {"statistics", "execute"}

HasState == \E i \in 1..Len(circuit) : circuit[i].return_type = State

\* C1: whenever statistics returns, the list has exactly one entry per
\* requested observable, in the order of the observables, for every
\* measurement kind, including an observable of return type None
C1_OneEntryPerObservable ==
    (StatisticsDone /\ ret.ok)
        => /\ Len(ret.val) = Len(circuit)
           /\ \A i \in 1..Len(ret.val) : ret.val[i].obs = i

\* C2: statistics fails whenever a State measurement is requested together
\* with another measurement, wherever it stands in the list, and whenever it
\* is requested on a device with custom wire labels; a State result is
\* returned only when State is the only measurement
C2_StateOnlyAlone ==
    /\ (StatisticsDone /\ HasState /\ (Len(circuit) > 1 \/ CustomWireLabels))
          => ~ret.ok
    /\ (StatisticsDone /\ ret.ok /\ HasState)
          => /\ Len(circuit) = 1
             /\ ~CustomWireLabels
             /\ Len(ret.val) = 1
             /\ ret.val[1].val.kind \in {"state", "density_matrix"}

C2_Witness ==
    /\ call.op = "statistics"
    /\ Len(circuit) = 2
    /\ circuit[1].return_type = Expectation /\ circuit[2].return_type = State
    /\ shots = None /\ returns_state /\ ~CustomWireLabels
    /\ ret.err = "QuantumFunctionError"

(***************************************************************************)
(* Properties of the sampling engine.                                      *)
(***************************************************************************)
\* the shots a call selects, and the basis index of shot i on the wires w
SelectedShots == SliceRows(samples, call.shot_range)
ShotIndex(i, w) == Ravel(Gather(SelectedShots[i], map_wires(w)))

\* C11: estimate_probability fails with the shots-required error
\* (QuantumFunctionError) whenever the device has no configured shots
C11_NoShotsIsShotsRequiredError ==
    (Returned("estimate_probability") /\ shots = None)
        => (~ret.ok /\ ret.err = "QuantumFunctionError")

\* C12: whenever estimate_probability returns for a bin_size, for every
\* basis state the bin probabilities times bin_size add up to the number of
\* its occurrences in the selected shots, and the probabilities of every
\* bin add up to 1
C12_BinningConsistency ==
    (Returned("estimate_probability") /\ ret.ok /\ call.bin_size # None)
        => LET w == IF call.wires \in {NoneVec, <<>>} THEN wires ELSE call.wires
               p == ret.val
               bins == Len(p.num[1])
           IN  /\ \A v \in 1..Pow2(Len(w)) :
                     SeqSum(p.num[v]) * call.bin_size =
                        p.den * Cardinality({i \in 1..Len(SelectedShots) :
                                                ShotIndex(i, w) = v - 1})
               /\ \A b \in 1..bins :
                     SeqSum([v \in 1..Pow2(Len(w)) |-> p.num[v][b]]) = p.den

\* the eigenvalue of PauliZ on the observable's wire in the selected shot i
ShotEigenvalue(i) == 1 - 2 * SelectedShots[i][WireIndex(call.obs.wires[1]) + 1]

\* the sum of the eigenvalues of the bin_size consecutive shots of bin b
BinSum(b) ==
    SeqSum([k \in 1..call.bin_size |-> ShotEigenvalue((b - 1) * call.bin_size + k)])

\* C13: with a bin_size, the values sample puts in column b of its result,
\* which expval averages, are the eigenvalues of the bin_size consecutive
\* shots of bin b, and there are floor(len / bin_size) bins
C13_BinsAreConsecutiveShots ==
    /\ (Returned("sample") /\ ret.ok /\ call.bin_size # None
            /\ call.obs.name = "PauliZ")
          => /\ Len(ret.val.data) = call.bin_size
             /\ \A r \in 1..call.bin_size :
                   Len(ret.val.data[r]) = Len(SelectedShots) \div call.bin_size
             /\ \A b \in 1..(Len(SelectedShots) \div call.bin_size) :
                   SeqSum(Column(ret.val.data, b - 1)) = BinSum(b)
    /\ (Returned("expval_sampled") /\ ret.ok /\ call.bin_size # None
            /\ call.obs.name = "PauliZ" /\ shots # None)
          => LET bins == Len(SelectedShots) \div call.bin_size
             IN  /\ ret.val.den = call.bin_size
                 /\ bins = 1 => ret.val.num = BinSum(1)
                 /\ bins > 1 => /\ Len(ret.val.num) = bins
                                /\ \A b \in 1..bins : ret.val.num[b] = BinSum(b)

(***************************************************************************)
(* Properties of execute.                                                  *)
(***************************************************************************)
\* the positions in a log of the events of one kind
EventsOf(l, ev) == {i \in 1..Len(l) : l[i].ev = ev}

\* one step of the device keeps the lifecycle of the sample buffer
BufferLifecycleStep ==
    /\ call'.op = "reset" => samples' = NoneMat
    /\ call'.op = "execute" =>
          LET gen == EventsOf(log', "generate_samples")
              st == EventsOf(log', "statistics")
          IN  /\ log'[1].ev = "apply"
              /\ (shots # None \/ is_sampled(circuit)) <=> gen = {2}
              /\ gen = {} => samples' = samples
              /\ \A g \in gen :
                    IF log'[g].ok
                    THEN /\ samples' = log'[g].buf
                         /\ samples' # NoneMat
                         /\ Len(samples') = shots
                         /\ \A i \in st : i > g /\ log'[i].buf = log'[g].buf
                    ELSE st = {} /\ samples' = samples /\ ~ret'.ok
              /\ \A i \in st : log'[i].buf = samples'

\* C19, as amended: reset discards the sample buffer; an execute that needs
\* samples generates them exactly once, after apply and before any
\* statistic, and when that succeeds the whole buffer is replaced; when it
\* raises (no shots, a sampled circuit) no statistic is computed and the
\* buffer is left as it was; no statistic changes the buffer; so every
\* statistic of an execute reads the samples that execute generated
C19_SampleBufferLifecycle == [][BufferLifecycleStep]_vars

\* C19, as stated: every execute that needs samples (shots configured or a
\* sampled circuit) replaces the whole buffer
C19_EveryNeedingExecuteReplaces ==
    [][/\ BufferLifecycleStep
       /\ (call'.op = "execute" /\ (shots # None \/ is_sampled(circuit)))
             => \E g \in EventsOf(log', "generate_samples") :
                   log'[g].ok /\ samples' = log'[g].buf]_vars

C19_Witness ==
    /\ call.op = "execute" /\ ret.ok /\ num_executions = 2
    /\ shot_vector # NoShotVector /\ Len(shot_vector) = 2
    /\ EventsOf(log, "generate_samples") = {2}
    /\ EventsOf(log, "statistics") = {3, 4}
    /\ log[4].buf = samples

\* the calls of statistics in the log, in order
StatisticsCalls == SelectSeq(log, LAMBDA e : e.ev = "statistics")

\* the shot ranges and bin sizes execute passes for the shot vector sv
RangesOf(sv) ==
    [i \in 1..Len(sv) |->
        <<ShotStart(sv, i), ShotEnd(ShotStart(sv, i), sv[i]), sv[i].shots>>]

\* C20: with a shot vector, an execute that returns has called statistics
\* once per entry, in order; the first range starts at 0, every range is
\* shots * copies long, every next range starts where the one before
\* ended, the last ends at the number of sample rows, and bin_size is the
\* entry's shots; shots = [5, (10, 3), 100] gives [0, 5] / 5, [5, 35] / 10,
\* [35, 135] / 100
C20_ShotRangesPartitionBuffer ==
    /\ (call.op = "execute" /\ ret.ok /\ shot_vector # NoShotVector)
          => LET st == StatisticsCalls
                 n == Len(shot_vector)
             IN  /\ Len(st) = n
                 /\ st[1].shot_range[1] = 0
                 /\ \A i \in 1..n :
                       /\ st[i].shot_range[2] =
                             st[i].shot_range[1]
                                + shot_vector[i].shots * shot_vector[i].copies
                       /\ st[i].bin_size = shot_vector[i].shots
                 /\ \A i \in 2..n : st[i].shot_range[1] = st[i - 1].shot_range[2]
                 /\ st[n].shot_range[2] = Len(samples)
    /\ RangesOf(<<ShotTuple(5, 1), ShotTuple(10, 3), ShotTuple(100, 1)>>)
          = <<<<0, 5, 5>>, <<5, 35, 10>>, <<35, 135, 100>>>>

C20_Witness ==
    /\ call.op = "execute" /\ ret.ok
    /\ shot_vector = <<ShotTuple(1, 2), ShotTuple(1, 1)>>
    /\ Len(samples) = 3
    /\ Len(StatisticsCalls) = 2
    /\ StatisticsCalls[2].shot_range = <<2, 3>>

(***************************************************************************)
(* Properties of adjoint_jacobian.                                         *)
(***************************************************************************)
\* the tape of the call has a measurement adjoint_jacobian does not support
UnsupportedMeasurement ==
    \E i \in 1..Len(adj.tape.measurements) :
        \/ adj.tape.measurements[i].return_type # Expectation
        \/ adj.tape.measurements[i].name = "Hamiltonian"

\* the objects whose inverse flag is not the one they had at the call
Inverted == (adj.inverse \ adj.entry_inverse) \cup (adj.entry_inverse \ adj.inverse)

\* C14: on a tape with a measurement that is not an expectation, or that
\* measures a Hamiltonian, adjoint_jacobian raises QuantumFunctionError
\* with the device neither reset nor executed, no operation inverted or
\* applied, and no Jacobian
C14_UnsupportedMeasurementFailsFast ==
    (adj.pc # "entry" /\ UnsupportedMeasurement)
        => /\ adj.pc = "raised"
           /\ ret = Raise("QuantumFunctionError")
           /\ log = <<>>
           /\ samples = NoneMat /\ num_executions = 0
           /\ Inverted = {}
           /\ adj.ket = [state |-> NoneVec, applied |-> <<>>]
           /\ adj.jac.cols = <<>>

C14_Witness ==
    /\ adj.pc = "raised"
    /\ adj.tape.measurements[1].name = "Hamiltonian"
    /\ adj.tape.measurements[1].return_type = Expectation
    /\ Len(adj.tape.operations) = 1
    /\ adj.starting_state = NoneVec /\ ~adj.use_device_state

\* C15: when adjoint_jacobian has returned or raised, every operation has
\* the inverse flag it had at the call, also when an object occurs twice in
\* the tape; and at no moment is more than one operation inverted
C15_OperationsLeftUnchanged ==
    /\ adj.pc \in {"returned", "raised"} => adj.inverse = adj.entry_inverse
    /\ Cardinality(Inverted) <= 1
    /\ adj.pc = "inverted" <=> Cardinality(Inverted) = 1

C15_Witness ==
    /\ adj.pc = "returned"
    /\ adj.tape.operations = <<1, 1>>
    /\ adj.tape.objs[1].name = "RX"
    /\ adj.entry_inverse = {TapeRef(1)}
    /\ adj.ket.applied = <<TapeRef(1), TapeRef(1)>>

\* C16: every column of the Jacobian adjoint_jacobian returns has been
\* written exactly once
C16_EveryColumnWrittenOnce ==
    adj.pc = "returned"
        => \A c \in 1..Len(ret.val.cols) : ret.val.cols[c].writes = 1

\* the parameters marked trainable that belong to an operation
GateParams(tape) == {k \in tape.trainable_params : k < NumOperationParams(tape)}

\* the frame the call would have reached the walk with, had only the
\* parameters of the operations been marked trainable
GateOnlyFrame ==
    Prepare([Frame([adj.tape EXCEPT !.trainable_params = GateParams(adj.tape)],
                   adj.entry_inverse, adj.starting_state, adj.use_device_state)
               EXCEPT !.ket.state = adj.ket.state])

\* C17: with a parameter of a measured observable marked trainable the call
\* warns and ends as it would without the mark: it raises only where the
\* tape or its execution is rejected anyway, and else returns a Jacobian of
\* one column per trainable parameter of an operation, in ascending order,
\* equal to the one computed with only those parameters marked
C17_ObservableParametersExcluded ==
    (\E k \in adj.tape.trainable_params : OwnedByObservable(adj.tape, k))
        => /\ adj.pc = "raised"
                => \/ ~CheckMeasurements(adj.tape.measurements).ok
                   \/ ~expanded_ops(adj.tape, adj.entry_inverse).ok
                   \/ log # <<>> /\ ~log[Len(log)].ok
           /\ adj.pc \in {"walk", "inverted", "returned"}
                => /\ "observable parameter" \in adj.warnings
                   /\ adj.trainable_params = Ascending(GateParams(adj.tape))
                   /\ Len(adj.jac.cols) = Cardinality(GateParams(adj.tape))
           /\ adj.pc = "returned"
                => /\ ret.ok
                   /\ ret.val = Walk(GateOnlyFrame).jac

C17_Witness ==
    /\ adj.pc = "returned"
    /\ adj.tape.operations = <<1, 2>>
    /\ adj.tape.objs[1].name = "RX" /\ adj.tape.objs[2].name = "RX"
    /\ adj.tape.measurements[1].name = "Projector"
    /\ adj.tape.trainable_params = {0, 1, 2}
    /\ Len(ret.val.cols) = 2
    /\ \A c \in 1..2 : ret.val.cols[c].writes = 1

\* what the state initialisation of a call whose measurements are accepted
\* does in one step
StateInitialisationStep ==
    (adj.pc = "entry" /\ adj'.pc # "entry"
        /\ CheckMeasurements(adj.tape.measurements).ok)
    => /\ IF adj.starting_state = NoneVec /\ ~adj.use_device_state
          THEN /\ Len(log') >= 2
               /\ log'[1] = ResetEvent
               /\ log'[2].ev = "apply"
               /\ log'[Len(log')].ok
                    => /\ adj'.ket.state = prob'
                       /\ num_executions' = num_executions + 1
               /\ ~log'[Len(log')].ok => adj'.pc = "raised"
          ELSE /\ log' = <<>>
               /\ UNCHANGED <<prob, samples, num_executions>>
               /\ adj'.ket.state = IF adj.starting_state # NoneVec
                                   THEN adj.starting_state ELSE prob
       /\ "finite shots" \in adj'.warnings <=> shots # None

\* C18: adjoint_jacobian resets the device and executes the tape if and
\* only if it is given no starting_state and use_device_state is false; a
\* starting_state is used, whatever use_device_state, without reset or
\* execution; with use_device_state alone the state the device retains is
\* used without reset or execution; finite shots only add a warning
C18_StateInitialisation == [][StateInitialisationStep]_vars

C18_Witness ==
    /\ adj.pc = "returned"
    /\ adj.starting_state # NoneVec /\ adj.use_device_state
    /\ shots # None
    /\ adj.ket.state = adj.starting_state
    /\ adj.ket.state # prob
    /\ log = <<>>
    /\ "finite shots" \in adj.warnings

\* the position, among the parameters of the tape's operations, of the
\* first parameter of the operation at position pos of the tape
FirstParam(tape, pos) ==
    SeqSum([q \in 1..(pos - 1) |-> tape.objs[tape.operations[q]].num_params])

\* the parameter each operation the tape position pos adds to expanded_ops
\* carries: those of a Rot from the last to the first, None without one
ParamsAt(tape, pos) ==
    LET op == tape.objs[tape.operations[pos]]
        first == FirstParam(tape, pos)
    IN  IF op.num_params > 1 THEN <<first + 2, first + 1, first>>
        ELSE IF op.name \in {"QubitStateVector", "BasisState", "Snapshot"} THEN <<>>
        ELSE IF op.num_params = 1 THEN <<first>>
        ELSE <<None>>

\* for every operation of expanded_ops, the parameter it carries
ExpandedParams(tape) ==
    Chain([k \in 1..Len(tape.operations) |->
              ParamsAt(tape, Len(tape.operations) + 1 - k)])

\* the second half of a pass writes a column of the Jacobian
ColumnWritten ==
    /\ adj.pc = "inverted" /\ adj'.pc = "walk"
    /\ adj'.jac # adj.jac

\* C21: whenever a pass of the walk writes a column, param_number is the
\* position of the parameter of the operation of that pass among the
\* parameters of the tape's operations, and
\* trainable_params[trainable_param_number] = param_number
C21_ParameterBookkeeping ==
    [][ColumnWritten
         => /\ adj.param_number = ExpandedParams(adj.tape)[adj.i]
            /\ adj.trainable_param_number \in 0..(Len(adj.trainable_params) - 1)
            /\ adj.trainable_params[adj.trainable_param_number + 1]
                  = adj.param_number]_vars

\* the column a pass of the walk writes
WrittenColumn ==
    adj'.jac.cols[CHOOSE c \in 1..Len(adj.jac.cols) :
                     adj'.jac.cols[c] # adj.jac.cols[c]]

\* the first half of a pass applies the inverted operation to the ket
KetAdvances ==
    (adj.pc = "walk" /\ adj'.pc = "inverted")
        => adj'.ket = [adj.ket EXCEPT !.applied = Append(@, adj.expanded_ops[adj.i])]

\* the ket of before the pass, seen from its second half
KetBeforePass == [adj.ket EXCEPT !.applied = SubSeq(@, 1, Len(@) - 1)]

\* C22, as amended: the perturbed ket of a trainable operation is the
\* derivative matrix of that operation applied to the running ket after
\* the inverse of the operation has been applied to it; it is a new state,
\* the running ket is not replaced by it
C22_DerivativeAppliedAfterInverse ==
    [][/\ KetAdvances
       /\ ColumnWritten
            => /\ WrittenColumn.ket_temp.ket = adj.ket
               /\ WrittenColumn.ket_temp.ket # KetBeforePass
               /\ WrittenColumn.ket_temp.d_op.op = adj.expanded_ops[adj.i]
               /\ adj'.ket = adj.ket]_vars

\* C22, as stated: the derivative matrix is applied to the ket as it was
\* before the inverse of the operation was applied to it
C22_DerivativeAppliedBeforeInverse ==
    [][/\ KetAdvances
       /\ ColumnWritten
            => /\ WrittenColumn.ket_temp.ket = KetBeforePass
               /\ adj'.ket = adj.ket]_vars

C22_Witness ==
    /\ adj.pc = "returned"
    /\ Len(adj.expanded_ops) = 2
    /\ Len(ret.val.cols) = 2
    /\ ret.val.cols[1].writes = 1
    /\ ret.val.cols[1].ket_temp.ket.applied = adj.expanded_ops
    /\ ret.val.cols[2].writes = 1
    /\ ret.val.cols[2].ket_temp.ket.applied = <<adj.expanded_ops[1]>>
    /\ adj.ket.applied = adj.expanded_ops

\* the first half of pass adj.i of the walk computes the derivative matrix
DerivativeComputed == adj'.d_op_matrix.at = adj.i

\* C23: a pass of the walk computes the derivative matrix of its operation
\* exactly when the operation has a gradient method and param_number is
\* trainable, and takes it of the operation in the direction it had before
\* op.inv(); the column a pass writes holds the derivative that pass
\* computed, of the operation of that pass
C23_DerivativeBeforeInversion ==
    [][/\ (adj.pc = "walk" /\ adj'.pc = "inverted")
            => LET ref == adj.expanded_ops[adj.i]
               IN  /\ DerivativeComputed
                        <=> /\ OpOf(adj.tape, ref).grad_method # NoGradMethod
                            /\ adj.param_number \in Range(adj.trainable_params)
                   /\ DerivativeComputed
                        => /\ adj'.d_op_matrix.op = ref
                           /\ adj'.d_op_matrix.inverse = (ref \in adj.entry_inverse)
                           /\ adj'.inverse = inv(adj.entry_inverse, ref)
                   /\ ~DerivativeComputed => adj'.d_op_matrix = adj.d_op_matrix
       /\ ColumnWritten
            => /\ WrittenColumn.ket_temp.d_op = adj.d_op_matrix
               /\ adj.d_op_matrix.at = adj.i
               /\ adj.d_op_matrix.op = adj.expanded_ops[adj.i]]_vars

C23_Witness ==
    /\ adj.pc = "returned"
    /\ adj.tape.operations = <<1, 2>>
    /\ adj.tape.objs[1].name = "RX" /\ adj.tape.objs[2].name = "RX"
    /\ adj.entry_inverse = {TapeRef(1)}
    /\ adj.tape.trainable_params = {0}
    /\ Len(ret.val.cols) = 1
    /\ ret.val.cols[1].ket_temp.d_op = [op |-> TapeRef(1), inverse |-> TRUE, at |-> 2]

\* C24: the bras are the observables applied to the initial ket, one per
\* measurement, before any inverse operation; between the passes of the
\* walk the ket and every bra have had the same operations applied; in the
\* middle of a pass, and in every column of the Jacobian, the ket is the one
\* operation of that pass ahead of the bras
C24_BrasInLockStep ==
    adj.pc \in {"walk", "inverted", "returned"}
        => /\ Len(adj.bras) = Len(adj.tape.measurements)
           /\ \A kk \in 1..Len(adj.bras) :
                 /\ adj.bras[kk].observable = kk
                 /\ adj.bras[kk].of = [state |-> adj.ket.state, applied |-> <<>>]
                 /\ IF adj.pc = "inverted"
                    THEN adj.ket.applied
                            = Append(adj.bras[kk].applied, adj.expanded_ops[adj.i])
                    ELSE adj.ket.applied = adj.bras[kk].applied
           /\ \A c \in 1..Len(adj.jac.cols) :
                 adj.jac.cols[c].writes > 0
                    => /\ Len(adj.jac.cols[c].bras) = Len(adj.tape.measurements)
                       /\ \A kk \in 1..Len(adj.jac.cols[c].bras) :
                             /\ adj.jac.cols[c].bras[kk].observable = kk
                             /\ adj.jac.cols[c].ket_temp.ket.applied
                                   = Append(adj.jac.cols[c].bras[kk].applied,
                                            adj.jac.cols[c].ket_temp.d_op.op)

C24_Witness ==
    /\ adj.pc = "returned"
    /\ Len(adj.tape.measurements) = 2
    /\ Len(adj.ket.applied) = 2
    /\ adj.bras[2].applied = adj.ket.applied
    /\ Len(adj.jac.cols) = 2
    /\ adj.jac.cols[1].writes = 1
    /\ Len(adj.jac.cols[1].bras[2].applied) = 1

\* the tape's operations in forward order, each Rot at a position of
\* decomposed replaced by its decomposition, the state preparations and
\* snapshots removed
ForwardOps(tape, decomposed) ==
    Chain([pos \in 1..Len(tape.operations) |->
              LET obj == tape.operations[pos]
              IN  IF pos \in decomposed THEN decomposition(pos)
                  ELSE IF tape.objs[obj].name
                             \in {"QubitStateVector", "BasisState", "Snapshot"}
                  THEN <<>>
                  ELSE <<TapeRef(obj)>>])

\* the positions of the tape that hold a Rot
Rots(tape) ==
    {pos \in 1..Len(tape.operations) : tape.objs[tape.operations[pos]].name = "Rot"}

\* the positions of the tape that hold an operation of several parameters
SeveralParams(tape) ==
    {pos \in 1..Len(tape.operations) :
        tape.objs[tape.operations[pos]].num_params > 1}

\* the call has checked the measurements and initialised the ket
Initialised == adj.pc # "entry" /\ adj.ket.state # NoneVec

\* the call ends at the operation list as if the positions rejecting were
\* the ones it does not support
ExpansionRejects(rejecting) ==
    IF rejecting = {}
    THEN /\ adj.pc # "raised"
         /\ adj.rejected = ""
         /\ adj.expanded_ops = Reverse(ForwardOps(adj.tape, Rots(adj.tape)))
    ELSE /\ adj.pc = "raised"
         /\ ret = Raise("QuantumFunctionError")
         /\ \E pos \in rejecting :
               adj.rejected = adj.tape.objs[adj.tape.operations[pos]].name
         /\ adj.expanded_ops = <<>> /\ adj.jac.cols = <<>>

ResetsAndApplies == SelectSeq(log', LAMBDA e : e.ev \in {"reset", "apply"})

\* a call of batch_execute that returns
BatchReturns == call'.op = "batch_execute" /\ ret'.ok

\* C26: a batch_execute that returns has, for every circuit in input
\* order, reset the device and then executed the circuit on a device
\* without sample buffer; it returns one result per circuit, the i-th a
\* result of executing the i-th circuit on a reset device and the last one
\* the statistics of the state and samples the device is left with; the
\* execution counter has grown by the number of circuits
C26_BatchExecute ==
    [][BatchReturns
         => LET n == Len(call'.circuits)
            IN  /\ Len(ret'.val) = n
                /\ num_executions' = num_executions + n
                /\ Len(ResetsAndApplies) = 2 * n
                /\ \A i \in 1..n :
                      /\ ResetsAndApplies[2 * i - 1] = ResetEvent
                      /\ ResetsAndApplies[2 * i] = ApplyEvent(NoneMat)
                      /\ \E o \in execute_holding(NoneMat, call'.circuits[i]) :
                            o.ret.ok /\ o.ret.val = ret'.val[i]
                /\ \A j \in 1..Len(log') :
                      log'[j].ev = "apply" => j > 1 /\ log'[j - 1] = ResetEvent
                /\ \A j \in 1..Len(log') : log'[j].ok
                /\ n > 0 =>
                      ret'.val[n] = statistics([prob |-> prob', samples |-> samples'],
                                               call'.circuits[n], NoneVec, None).val
                /\ n = 0 => UNCHANGED <<prob, samples>>]_vars

C26_Witness ==
    /\ call.op = "batch_execute" /\ ret.ok
    /\ shots = 1
    /\ Len(call.circuits) = 2
    /\ Len(call.circuits[1]) = 2 /\ Len(call.circuits[2]) = 1
    /\ Len(ret.val) = 2
    /\ Len(ret.val[1]) = 2 /\ Len(ret.val[2]) = 1
    /\ num_executions = 3
    /\ Len(SelectSeq(log, LAMBDA e : e.ev = "reset")) = 2

====
